---------------------------- MODULE Spec2Model ----------------------------
(***************************************************************************)
(* Model of the unified AI generation service of Listing Magic             *)
(* (python-backend/services/ai_generation_service.py): the provider error  *)
(* classifier is_infrastructure_error, the two provider wrappers           *)
(* _generate_with_openai / _generate_with_gemini and the orchestrator      *)
(* generate_content_with_fallback.                                         *)
(*                                                                         *)
(* Strings are sequences of tokens, so that formatting (f-strings),        *)
(* stripping and substring containment are computed, not assumed.          *)
(* Optional values are sets: None is {} and a present value x is {x}.      *)
(***************************************************************************)
EXTENDS Integers, Sequences, FiniteSets, TLC

VARIABLES
    openai_api_key,     \* settings.openai_api_key is non-empty
    gemini_api_key,     \* settings.gemini_api_key is non-empty
    pc,                 \* position of generate_content_with_fallback
    events,             \* log of provider invocations and API calls, in order
    primary_exc,        \* exception the orchestrator saw from _generate_with_openai
    secondary_exc,      \* exception the orchestrator saw from _generate_with_gemini
    openai_error,       \* local variable openai_error (str(e) of the primary)
    result,             \* the returned GenerationResult
    raised,             \* the exception propagated to the caller
    classify_in,        \* argument of a direct is_infrastructure_error call
    classify_out,       \* its return value
    endpoint,           \* a request to a generation endpoint (None: no request)
    refine,             \* a request to refine_content (None: no request)
    check_in,           \* argument of a direct check_fair_housing_compliance call
    check_out,          \* its return value
    clean,              \* a direct call of clean_json_response: argument and return value
    gemini,             \* a direct call of _generate_with_gemini: arguments, loop state, outcome
    health,             \* a request to GET /health: probe statuses and the response
    walkthru,           \* a call of AnthropicService.generate_walkthru_script under its retry policy
    gemini_service,     \* the singleton GeminiService and the generate_features calls in flight on it
    task_call,               \* the arguments of one generate_content_with_fallback call and of the provider calls it made
    event_loop,         \* the one asyncio event loop: which handler is running and where each request stands
    cost_tracker,       \* the singleton CostTracker, the clock, and the requests that record usage on it
    video,              \* the generate_walkthrough_video requests in progress and the paths they use
    categorize,         \* the categorize_photos request and its outcome
    sanitize            \* a text and sanitize_content of it, once and twice

vars == <<openai_api_key, gemini_api_key, pc, events, primary_exc,
          secondary_exc, openai_error, result, raised, classify_in,
          classify_out, endpoint, refine, check_in, check_out,
          clean,
          gemini,
          health,
          walkthru,
          gemini_service,
          task_call,
          event_loop,
          cost_tracker,
          video,
          categorize,
          sanitize>>

\* the state outside the orchestrator and the classifier
ext_vars == <<endpoint, refine, check_in, check_out>>

orch_vars == <<openai_api_key, gemini_api_key, pc, events, primary_exc,
               secondary_exc, openai_error, result, raised>>

---------------------------------------------------------------------------
(* Bounds *)

\* longest provider error message, in tokens
MaxMsgLen == 1

---------------------------------------------------------------------------
(* Optional values *)

None == {}

Some(x) == {x}

The(o) == CHOOSE x \in o : TRUE

---------------------------------------------------------------------------
(* Strings *)

OPENAI_MODEL == <<"gpt-5.2">>

GEMINI_MODEL == <<"gemini-2.0-flash">>

Tokens == {"a", "b"}

Messages == UNION {[1..n -> Tokens] : n \in 0..MaxMsgLen}

IsWhitespace(t) == t \in {" ", "\n"}

RECURSIVE LStrip(_)
LStrip(s) ==
    IF s = <<>> THEN <<>>
    ELSE IF IsWhitespace(Head(s)) THEN LStrip(Tail(s)) ELSE s

RECURSIVE RStrip(_)
RStrip(s) ==
    IF s = <<>> THEN <<>>
    ELSE IF IsWhitespace(s[Len(s)]) THEN RStrip(SubSeq(s, 1, Len(s) - 1))
         ELSE s

\* str.strip()
Strip(s) == RStrip(LStrip(s))

\* needle in haystack
Contains(haystack, needle) ==
    \E i \in 1..(Len(haystack) - Len(needle) + 1) :
        SubSeq(haystack, i, i + Len(needle) - 1) = needle

---------------------------------------------------------------------------
(* Exceptions.  An exception is a record: its class, the value of its      *)
(* status_code attribute (None when the class has no such attribute), the  *)
(* HTTP status the provider answered with (0 when there was no HTTP        *)
(* response) and str(e).                                                   *)

Exc(cls, status_code, http, msg) ==
    [cls |-> cls, status_code |-> status_code, http |-> http, msg |-> msg]

\* the classes each exception class is an instance of (its MRO), for the
\* classes imported by the service
Ancestors(cls) ==
    CASE cls = "APIError"            -> {"APIError"}
      [] cls = "APIConnectionError"  -> {"APIConnectionError", "APIError"}
      [] cls = "APITimeoutError"     ->
            {"APITimeoutError", "APIConnectionError", "APIError"}
      [] cls = "APIStatusError"      -> {"APIStatusError", "APIError"}
      [] cls = "RateLimitError"      ->
            {"RateLimitError", "APIStatusError", "APIError"}
      [] cls = "ResourceExhausted"   ->
            {"ResourceExhausted", "TooManyRequests", "ClientError",
             "GoogleAPICallError", "GoogleAPIError"}
      [] cls = "ServiceUnavailable"  ->
            {"ServiceUnavailable", "ServerError", "GoogleAPICallError",
             "GoogleAPIError"}
      [] cls = "DeadlineExceeded"    ->
            {"DeadlineExceeded", "GatewayTimeout", "ServerError",
             "GoogleAPICallError", "GoogleAPIError"}
      [] cls = "google.InternalServerError" ->
            {"google.InternalServerError", "ServerError",
             "GoogleAPICallError", "GoogleAPIError"}
      [] cls = "InvalidArgument"     ->
            {"InvalidArgument", "BadRequest", "ClientError",
             "GoogleAPICallError", "GoogleAPIError"}
      [] cls = "PermissionDenied"    ->
            {"PermissionDenied", "Forbidden", "ClientError",
             "GoogleAPICallError", "GoogleAPIError"}
      [] cls = "ConnectionError"     -> {"ConnectionError", "OSError"}
      [] cls = "TimeoutError"        -> {"TimeoutError", "OSError"}
      [] cls = "httpx.ConnectError"  ->
            {"httpx.ConnectError", "httpx.NetworkError",
             "httpx.TransportError"}
      [] cls = "httpx.ReadTimeout"   ->
            {"httpx.ReadTimeout", "httpx.TimeoutException",
             "httpx.TransportError"}
      [] cls = "anthropic.APIConnectionError" ->
            {"anthropic.APIConnectionError", "anthropic.APIError"}
      [] cls = "anthropic.RateLimitError" ->
            {"anthropic.RateLimitError", "anthropic.APIStatusError",
             "anthropic.APIError"}
      [] OTHER                       -> {cls}

\* isinstance(error, classes)
isinstance(error, classes) == Ancestors(error.cls) \cap classes /= {}

\* hasattr(error, 'status_code')
has_status_code(error) == error.status_code /= None

InfrastructureError(msg) == Exc("InfrastructureError", None, 0, msg)

\* HTTP statuses an OpenAI APIStatusError is raised for
OpenAIStatuses == {400, 401, 404, 422, 429, 500, 503}

\* what the OpenAI SDK raises (openai.APIError and its subclasses)
OpenAIApiErrors ==
    {Exc(c, None, 0, m) :
        c \in {"APIConnectionError", "APITimeoutError", "APIError"},
        m \in Messages}
    \cup {Exc("RateLimitError", Some(429), 429, m) : m \in Messages}
    \cup {Exc("APIStatusError", Some(s), s, m) :
            s \in OpenAIStatuses, m \in Messages}

\* what the Gemini SDK raises (google.api_core.exceptions); these classes
\* carry their HTTP status in .code, they have no status_code attribute
GoogleApiErrors ==
    {Exc("ResourceExhausted", None, 429, m) : m \in Messages}
    \cup {Exc("ServiceUnavailable", None, 503, m) : m \in Messages}
    \cup {Exc("DeadlineExceeded", None, 504, m) : m \in Messages}
    \cup {Exc("google.InternalServerError", None, 500, m) : m \in Messages}
    \cup {Exc("InvalidArgument", None, 400, m) : m \in Messages}
    \cup {Exc("PermissionDenied", None, 403, m) : m \in Messages}

\* network failures below the SDKs (builtins and httpx)
TransportErrors ==
    {Exc(c, None, 0, m) :
        c \in {"ConnectionError", "TimeoutError", "httpx.ConnectError",
               "httpx.ReadTimeout"},
        m \in Messages}

\* anything else a provider call can raise
OtherErrors == {Exc("ValueError", None, 0, m) : m \in Messages}

---------------------------------------------------------------------------
(* Provider error classifier *)

is_infrastructure_error(error) ==
    IF isinstance(error, {"APIConnectionError", "APITimeoutError"}) THEN TRUE
    ELSE IF isinstance(error, {"RateLimitError"}) THEN TRUE
    ELSE IF isinstance(error, {"APIError"}) THEN
        IF has_status_code(error) /\ The(error.status_code) >= 500 THEN TRUE
        ELSE IF has_status_code(error) /\ The(error.status_code) = 429
             THEN TRUE
        ELSE FALSE
    ELSE IF isinstance(error, {"ResourceExhausted", "ServiceUnavailable",
                               "DeadlineExceeded"}) THEN TRUE
    ELSE IF isinstance(error, {"ConnectionError", "TimeoutError"}) THEN TRUE
    ELSE IF isinstance(error, {"httpx.ConnectError",
                               "httpx.TimeoutException"}) THEN TRUE
    ELSE FALSE

---------------------------------------------------------------------------
(* Provider wrappers.  The outcome of a call is a record: it returned      *)
(* content, or it raised exc.                                              *)

\* token counts of one response
Tokens2(input_tokens, output_tokens) ==
    [input_tokens |-> input_tokens, output_tokens |-> output_tokens]

Return(content, tokens) ==
    [kind |-> "return", content |-> content, exc |-> None, tokens |-> tokens]

Raise(e) ==
    [kind |-> "raise", content |-> <<>>, exc |-> Some(e),
     tokens |-> Tokens2(0, 0)]

\* str(e)
str(e) == e.msg

\* texts a provider can answer with, before stripping
RawTexts ==
    {<<>>, <<" ">>, <<"text">>, <<" ", "text", "\n">>,
     <<"Adults", " ", "only">>,
     <<"{\"all_features\": [\"", "Pool", "\"]}">>,
     <<"<fence>json", "\n", "{\"all_features\": [\"", "Pool", "\", \"",
       "Adults", " ", "only", "\"]}", "\n", "<fence>">>}

\* the usage block of a response: absent, or token counts
Usages == {None, Some(Tokens2(7, 3))}

\* outcomes of client.responses.create: a response whose output_text is
\* None or a text, or an exception
OpenAIApiOutcomes ==
    {[kind |-> "response", output_text |-> t, exc |-> None, usage |-> u] :
        t \in {None} \cup {Some(x) : x \in RawTexts}, u \in Usages}
    \cup {[kind |-> "raise", output_text |-> None, exc |-> Some(e),
           usage |-> None] :
            e \in OpenAIApiErrors \cup TransportErrors \cup OtherErrors}

\* outcomes of model.generate_content_async: a response with a text, a
\* response whose .text accessor raises ValueError (no valid part), or an
\* exception
GeminiApiOutcomes ==
    {[kind |-> "response", output_text |-> Some(x), exc |-> None,
      usage |-> u] : x \in RawTexts, u \in Usages}
    \cup {[kind |-> "response", output_text |-> None,
           exc |-> Some(Exc("ValueError", None, 0, <<>>)), usage |-> None]}
    \cup {[kind |-> "raise", output_text |-> None, exc |-> Some(e),
           usage |-> None] :
            e \in GoogleApiErrors \cup TransportErrors \cup OtherErrors}

\* the guard of _generate_with_openai
openai_key_ok(openai_key) == openai_key

\* _generate_with_openai from the API call's outcome on
_generate_with_openai(api) ==
    IF api.kind = "response" THEN
        Return(IF api.output_text /= None /\ The(api.output_text) /= <<>>
               THEN Strip(The(api.output_text)) ELSE <<>>,
               IF api.usage /= None THEN The(api.usage) ELSE Tokens2(0, 0))
    ELSE
        LET e == The(api.exc) IN
        IF isinstance(e, {"APIConnectionError", "APITimeoutError",
                          "RateLimitError"}) THEN
            Raise(InfrastructureError(<<"OpenAI unavailable: ">> \o str(e)))
        ELSE IF isinstance(e, {"APIError"}) THEN
            IF has_status_code(e)
               /\ (The(e.status_code) >= 500 \/ The(e.status_code) = 429)
            THEN Raise(InfrastructureError(
                        <<"OpenAI server error: ">> \o str(e)))
            ELSE Raise(e)
        ELSE Raise(e)

\* the guard of _generate_with_gemini
gemini_key_ok(gemini_key, openai_key) == gemini_key \/ openai_key

\* _generate_with_gemini from the API call's outcome on
_generate_with_gemini(api) ==
    IF api.kind = "response" THEN
        IF api.exc /= None THEN Raise(The(api.exc))
        ELSE Return(Strip(The(api.output_text)),
                    IF api.usage /= None THEN The(api.usage)
                    ELSE Tokens2(0, 0))
    ELSE
        LET e == The(api.exc) IN
        IF isinstance(e, {"ResourceExhausted", "ServiceUnavailable",
                          "DeadlineExceeded"}) THEN
            Raise(InfrastructureError(<<"Gemini unavailable: ">> \o str(e)))
        ELSE Raise(e)

---------------------------------------------------------------------------
(* Orchestrator: generate_content_with_fallback.  Its steps are the code   *)
(* between two suspension points (the awaits of the provider API calls).   *)
(* st is the frame of one execution: pc, the event log, the exceptions     *)
(* seen, the local openai_error and what the call ended with.              *)

GenerationResult(success, content, provider, model, tokens, is_fallback, error) ==
    [success |-> success, content |-> content,
     provider_used |-> provider, model_used |-> model,
     input_tokens |-> {t.input_tokens : t \in tokens},
     output_tokens |-> {t.output_tokens : t \in tokens},
     is_fallback |-> is_fallback, error |-> error]

Frame ==
    [pc |-> pc, events |-> events, primary_exc |-> primary_exc,
     secondary_exc |-> secondary_exc, openai_error |-> openai_error,
     result |-> result, raised |-> raised]

\* variant: every primary exception leads to step 2
ShouldFallback_any_exception(e) == TRUE

\* variant: only the except InfrastructureError clause leads to step 2
ShouldFallback_only_wrapped(e) == isinstance(e, {"InfrastructureError"})

\* the except clauses of step 1: does this primary exception lead to step 2
ShouldFallback(e) ==
    IF isinstance(e, {"InfrastructureError"}) THEN TRUE
    ELSE is_infrastructure_error(e)

\* the result of a successful primary call
openai_success_result(content, tokens) ==
    GenerationResult(TRUE, content, <<"openai">>, OPENAI_MODEL, Some(tokens),
                     FALSE, None)

\* variant: the fallback result without its flag
gemini_success_result_unflagged(content, tokens) ==
    GenerationResult(TRUE, content, <<"gemini">>, GEMINI_MODEL, Some(tokens),
                     FALSE, None)

\* the result of a successful secondary call
gemini_success_result(content, tokens) ==
    GenerationResult(TRUE, content, <<"gemini">>, GEMINI_MODEL, Some(tokens),
                     TRUE, None)

\* variant: only the last error is reported
all_failed_error_last_only(openai_err, e) ==
    <<"All providers failed. Last error: ">> \o str(e)

\* the error text when both providers failed
all_failed_error(openai_err, e) ==
    <<"All providers failed. OpenAI: ">> \o openai_err
        \o <<". Gemini: ">> \o str(e)

\* the result when both providers failed
all_failed_result(openai_err, e) ==
    GenerationResult(FALSE, <<>>, <<"none">>, <<"none">>, None, TRUE,
                     Some(all_failed_error(openai_err, e)))

\* variant: the secondary's exception is raised to the caller
after_secondary_reraise(st, out) ==
    IF out.kind = "return" THEN
        [st EXCEPT !.pc = "returned",
                   !.events = @ \o <<"gemini_end">>,
                   !.result = Some(gemini_success_result(out.content, out.tokens))]
    ELSE
        [st EXCEPT !.pc = "raised",
                   !.events = @ \o <<"gemini_end">>,
                   !.secondary_exc = out.exc,
                   !.raised = out.exc]

\* variant: a failed secondary call is tried again
after_secondary_retry(st, out) ==
    IF out.kind = "return" THEN
        [st EXCEPT !.pc = "returned",
                   !.events = @ \o <<"gemini_end">>,
                   !.result = Some(gemini_success_result(out.content, out.tokens))]
    ELSE
        [st EXCEPT !.pc = "await_gemini",
                   !.events = @ \o <<"gemini_end", "gemini_call",
                                     "gemini_api_start">>,
                   !.secondary_exc = out.exc]

\* step 2 from the outcome of _generate_with_gemini on
after_secondary(st, out) ==
    IF out.kind = "return" THEN
        [st EXCEPT !.pc = "returned",
                   !.events = @ \o <<"gemini_end">>,
                   !.result = Some(gemini_success_result(out.content, out.tokens))]
    ELSE
        [st EXCEPT !.pc = "returned",
                   !.events = @ \o <<"gemini_end">>,
                   !.secondary_exc = out.exc,
                   !.result = Some(all_failed_result(The(st.openai_error),
                                                     The(out.exc)))]

\* step 2 up to its first suspension point: _generate_with_gemini is called
\* and checks the key, then awaits the API call
start_secondary(st, gemini_key, openai_key) ==
    LET called == [st EXCEPT !.events = @ \o <<"gemini_call">>] IN
    IF ~gemini_key_ok(gemini_key, openai_key) THEN
        after_secondary(called,
            Raise(InfrastructureError(<<"Gemini API key not configured">>)))
    ELSE
        [called EXCEPT !.pc = "await_gemini",
                       !.events = @ \o <<"gemini_api_start">>]

\* step 1 from the outcome of _generate_with_openai on
after_primary(st, out, gemini_key, openai_key) ==
    IF out.kind = "return" THEN
        [st EXCEPT !.pc = "returned",
                   !.events = @ \o <<"openai_end">>,
                   !.result = Some(openai_success_result(out.content, out.tokens))]
    ELSE
        LET e == The(out.exc)
            seen == [st EXCEPT !.events = @ \o <<"openai_end">>,
                               !.primary_exc = out.exc]
        IN  IF ShouldFallback(e) THEN
                start_secondary([seen EXCEPT !.openai_error = Some(str(e))],
                                gemini_key, openai_key)
            ELSE
                [seen EXCEPT !.pc = "raised", !.raised = out.exc]

\* variant: both providers are started together
start_primary_eager(st, gemini_key, openai_key) ==
    [st EXCEPT !.pc = "await_openai",
               !.events = @ \o <<"openai_call", "openai_api_start",
                                 "gemini_call", "gemini_api_start">>]

\* step 1 up to its first suspension point: _generate_with_openai is called
\* and checks the key, then awaits the API call
start_primary(st, gemini_key, openai_key) ==
    LET called == [st EXCEPT !.events = @ \o <<"openai_call">>] IN
    IF ~openai_key_ok(openai_key) THEN
        after_primary(called,
            Raise(InfrastructureError(<<"OpenAI API key not configured">>)),
            gemini_key, openai_key)
    ELSE
        [called EXCEPT !.pc = "await_openai",
                       !.events = @ \o <<"openai_api_start">>]

ApplyFrame(st) ==
    /\ pc' = st.pc
    /\ events' = st.events
    /\ primary_exc' = st.primary_exc
    /\ secondary_exc' = st.secondary_exc
    /\ openai_error' = st.openai_error
    /\ result' = st.result
    /\ raised' = st.raised

Apply(st) ==
    /\ ApplyFrame(st)
    /\ UNCHANGED <<openai_api_key, gemini_api_key, classify_in, classify_out,
                   ext_vars, clean, gemini, health, walkthru, gemini_service, task_call, event_loop, cost_tracker, video, categorize, sanitize>>

\* a caller awaits generate_content_with_fallback(...)
Generate ==
    /\ pc = "idle"
    /\ Apply(start_primary(Frame, gemini_api_key, openai_api_key))

\* client.responses.create completes
OpenAIResponds ==
    /\ pc = "await_openai"
    /\ \E api \in OpenAIApiOutcomes :
        Apply(after_primary(
            [Frame EXCEPT !.events = @ \o <<"openai_api_end">>],
            _generate_with_openai(api), gemini_api_key, openai_api_key))

\* model.generate_content_async completes
GeminiResponds ==
    /\ pc = "await_gemini"
    /\ \E api \in GeminiApiOutcomes :
        Apply(after_secondary(
            [Frame EXCEPT !.events = @ \o <<"gemini_api_end">>],
            _generate_with_gemini(api)))

Init ==
    /\ sanitize = None
    /\ categorize = None
    /\ video = None
    /\ cost_tracker = None
    /\ event_loop = None
    /\ task_call = None
    /\ gemini_service = None
    /\ walkthru = None
    /\ health = None
    /\ gemini = None
    /\ clean = None
    /\ openai_api_key \in BOOLEAN
    /\ gemini_api_key \in BOOLEAN
    /\ pc = "idle"
    /\ events = <<>>
    /\ primary_exc = None
    /\ secondary_exc = None
    /\ openai_error = None
    /\ result = None
    /\ raised = None
    /\ classify_in = None
    /\ classify_out = None
    /\ endpoint = None
    /\ refine = None
    /\ check_in = None
    /\ check_out = None

Next == Generate \/ OpenAIResponds \/ GeminiResponds

Spec == Init /\ [][Next]_vars

---------------------------------------------------------------------------
(* The classifier on its own: is_infrastructure_error applied to every     *)
(* exception a provider call can raise.                                    *)

ClassifyInputs ==
    OpenAIApiErrors \cup GoogleApiErrors \cup TransportErrors
        \cup OtherErrors

InitClassify ==
    /\ sanitize = None
    /\ categorize = None
    /\ video = None
    /\ cost_tracker = None
    /\ event_loop = None
    /\ task_call = None
    /\ gemini_service = None
    /\ walkthru = None
    /\ health = None
    /\ gemini = None
    /\ clean = None
    /\ openai_api_key = TRUE
    /\ gemini_api_key = TRUE
    /\ pc = "idle"
    /\ events = <<>>
    /\ primary_exc = None
    /\ secondary_exc = None
    /\ openai_error = None
    /\ result = None
    /\ raised = None
    /\ classify_in \in {Some(e) : e \in ClassifyInputs}
    /\ classify_out = None
    /\ endpoint = None
    /\ refine = None
    /\ check_in = None
    /\ check_out = None

Classify ==
    /\ classify_in /= None
    /\ classify_out = None
    /\ classify_out' = Some(is_infrastructure_error(The(classify_in)))
    /\ UNCHANGED <<orch_vars, classify_in, ext_vars, clean, gemini, health, walkthru, gemini_service, task_call, event_loop, cost_tracker, video, categorize, sanitize>>

NextClassify == Classify

SpecClassify == InitClassify /\ [][NextClassify]_vars

---------------------------------------------------------------------------
(* Properties *)

\* number of times ev was logged
Count(ev) == Cardinality({i \in DOMAIN events : events[i] = ev})

\* generate_content_with_fallback has ended
Done == pc \in {"returned", "raised"}

\* the primary call ended with an exception the orchestrator takes for an
\* infrastructure failure
PrimaryInfra ==
    /\ primary_exc /= None
    /\ \/ The(primary_exc).cls = "InfrastructureError"
       \/ is_infrastructure_error(The(primary_exc))

\* the primary call ended with an exception the orchestrator takes for a
\* content failure
PrimaryContent ==
    /\ primary_exc /= None
    /\ The(primary_exc).cls /= "InfrastructureError"
    /\ ~is_infrastructure_error(The(primary_exc))

\* C1: whenever the primary call ended with a content-classified exception
\* (not an InfrastructureError, is_infrastructure_error false), the
\* secondary provider has been invoked zero times.
C1_NoFallbackOnContentError ==
    PrimaryContent =>
        Count("gemini_call") = 0 /\ Count("gemini_api_start") = 0

C1_Witness ==
    /\ pc = "raised"
    /\ PrimaryContent
    /\ The(primary_exc).status_code = Some(400)
    /\ Count("openai_api_end") = 1

\* C2: when the primary call ended with an infrastructure-classified
\* exception, by the time the call has ended the secondary was invoked
\* exactly once and the primary exactly once; if the secondary succeeded the
\* result has success=true and is_fallback=true.
C2_ExactlyOneFallbackOnInfraError ==
    (Done /\ PrimaryInfra) =>
        /\ Count("gemini_call") = 1
        /\ Count("openai_call") = 1
        /\ secondary_exc = None =>
             /\ result /= None
             /\ The(result).success = TRUE
             /\ The(result).is_fallback = TRUE

C2_Witness ==
    /\ pc = "returned"
    /\ PrimaryInfra
    /\ secondary_exc = None
    /\ Count("openai_api_end") = 1
    /\ Count("gemini_api_end") = 1
    /\ The(result).provider_used = <<"gemini">>

InFlight(provider) ==
    IF provider = "openai"
    THEN Count("openai_api_start") > Count("openai_api_end")
    ELSE Count("gemini_api_start") > Count("gemini_api_end")

\* C4: the secondary provider call never starts before the primary call
\* has finished, and the two API calls are never in flight together.
C4_StrictlySequential ==
    /\ ~(InFlight("openai") /\ InFlight("gemini"))
    /\ \A i \in DOMAIN events :
        events[i] \in {"gemini_call", "gemini_api_start"} =>
            \E j \in 1..(i - 1) : events[j] = "openai_end"

C4_Witness ==
    /\ pc = "await_gemini"
    /\ InFlight("gemini")
    /\ Count("openai_api_end") = 1

\* C5: the primary is called at most once, and exactly once by the end of
\* the call; the secondary is called at most once; hence at most two
\* provider calls and none repeated.
C5_SingleShot ==
    /\ Count("openai_call") <= 1
    /\ Count("gemini_call") <= 1
    /\ Count("openai_api_start") <= 1
    /\ Count("gemini_api_start") <= 1
    /\ pc /= "idle" => Count("openai_call") = 1
    /\ Count("openai_call") + Count("gemini_call") <= 2

C5_Witness ==
    /\ pc = "returned"
    /\ Count("openai_api_start") = 1
    /\ Count("gemini_api_start") = 1
    /\ secondary_exc /= None
    /\ The(secondary_exc).cls = "InfrastructureError"

TableInfrastructure(e) ==
    \/ e.http = 429
    \/ e.http >= 500
    \/ isinstance(e, {"APIConnectionError", "ConnectionError",
                      "httpx.ConnectError"})
    \/ isinstance(e, {"APITimeoutError", "TimeoutError",
                      "httpx.TimeoutException"})

\* C8: for every provider API error is_infrastructure_error answers as the
\* decision table does.
C8_DecisionTable ==
    (classify_out /= None
     /\ The(classify_in) \in
            OpenAIApiErrors \cup GoogleApiErrors \cup TransportErrors) =>
        (The(classify_out) <=> TableInfrastructure(The(classify_in)))

\* C9: a provider whose key is not configured raises InfrastructureError
\* before any call to its API; when it is the primary, the secondary is
\* then attempted.
C9_MissingKeyIsInfrastructureError ==
    /\ (~openai_api_key /\ Count("openai_call") > 0) =>
        /\ Count("openai_api_start") = 0
        /\ primary_exc /= None
        /\ The(primary_exc).cls = "InfrastructureError"
        /\ Count("gemini_call") = 1
    /\ (~gemini_api_key /\ Count("gemini_call") > 0) =>
        /\ Count("gemini_api_start") = 0
        /\ secondary_exc /= None
        /\ The(secondary_exc).cls = "InfrastructureError"

\* C10: no result has success=true with empty content, and a primary call
\* that returned (an empty response included) never leads to the secondary.
C10_EmptyResponseIsContentFailure ==
    /\ result /= None =>
        (The(result).success = TRUE => The(result).content /= <<>>)
    /\ (Count("openai_end") = 1 /\ primary_exc = None) =>
        Count("gemini_call") = 0

---------------------------------------------------------------------------
(* Fair Housing compliance checker (compliance/fair_housing.py).           *)
(* A text is a sequence of chunks: a whitespace character, a punctuation   *)
(* chunk (no word character at its ends), or a word chunk (word characters *)
(* only; a word of the taxonomy is never split over two chunks).  Two      *)
(* adjacent word chunks have no word boundary between them.  The chunk     *)
(* "<fence>" stands for the three backquotes of a Markdown code fence.     *)

PunctuationChunks ==
    {",", ".", "-", "+", "{\"all_features\": [\"", "\", \"", "\"]}",
     "<fence>json", "<fence>"}

IsWord(t) == ~IsWhitespace(t) /\ t \notin PunctuationChunks

IsDigits(t) == t \in {"55", "62"}

\* str.lower() of one chunk
LowerChunk(t) ==
    CASE t = "Adults"   -> "adults"
      [] t = "ADULTS"   -> "adults"
      [] t = "Only"     -> "only"
      [] t = "ONLY"     -> "only"
      [] t = "No"       -> "no"
      [] t = "Children" -> "children"
      [] t = "Near"     -> "near"
      [] t = "Church"   -> "church"
      [] t = "I"        -> "i"
      [] t = "Cannot"   -> "cannot"
      [] t = "Discriminatory" -> "discriminatory"
      [] OTHER          -> t

\* str.lower()
Lower(text) == [i \in DOMAIN text |-> LowerChunk(text[i])]

\* items of a pattern
Word(ws) == [k |-> "word", w |-> ws]

Ws1 == [k |-> "\\s+", w |-> {}]

Ws0 == [k |-> "\\s*", w |-> {}]

Sep == [k |-> "[\\s-]", w |-> {}]

AnyWord == [k |-> "\\w+", w |-> {}]

Digits == [k |-> "\\d+", w |-> {}]

Opt(ws) == [k |-> "?", w |-> ws]

\* the regex \b(w1\s+w2\s+...)\b, each wi an alternation of words
RECURSIVE Spaced(_)
Spaced(sets) ==
    IF Len(sets) = 1 THEN <<Word(sets[1])>>
    ELSE <<Word(sets[1]), Ws1>> \o Spaced(Tail(sets))

\* a regex with one alternative
P(sets) == {Spaced(sets)}

COMMUNITY == {"community", "neighborhood", "area"}

FAMILY == {"family", "families"}

COUPLE == {"couple", "couples"}

WORSHIP == {"church", "synagogue", "temple", "mosque"}

\* PROHIBITED_PATTERNS: the categories in dict order
Categories ==
    <<"familial_status", "religion", "race_ethnicity", "disability",
      "gender", "age", "national_origin">>

\* PROHIBITED_PATTERNS[category]["patterns"], in list order; a pattern is
\* the set of its alternatives, an alternative a sequence of items
Patterns(category) ==
    CASE category = "familial_status" ->
           <<P(<<{"adult", "adults"}, {"only"}>>),
             P(<<{"no"}, {"children"}>>),
             P(<<{"no"}, {"kids"}>>),
             P(<<{"perfect"}, {"for"}, COUPLE>>),
             P(<<{"ideal"}, {"for"}, COUPLE>>),
             P(<<{"great"}, {"for"}, COUPLE>>),
             P(<<{"mature"},
                 {"individual", "person", "couple", "adult", "individuals",
                  "persons", "couples", "adults"}>>),
             P(<<{"empty"}, {"nester", "nesters"}>>),
             P(<<{"single", "singles"}, {"only"}>>),
             P(<<{"adult"}, {"community", "living", "building", "complex"}>>),
             P(<<{"great"}, {"for"}, FAMILY>>),
             P(<<{"perfect"}, {"for"}, FAMILY>>),
             P(<<{"ideal"}, {"for"}, FAMILY>>),
             P(<<{"growing"}, FAMILY>>),
             P(<<{"young"}, FAMILY>>),
             P(<<{"married"}, COUPLE>>),
             P(<<{"newlywed", "newlyweds"}>>)>>
      [] category = "religion" ->
           <<P(<<{"near"}, WORSHIP \cup {"churches"}>>),
             P(<<{"close"}, {"to"}, WORSHIP \cup {"churches"}>>),
             P(<<{"walking"}, {"distance"}, {"to"}, WORSHIP>>),
             P(<<{"christian"}, COMMUNITY>>),
             P(<<{"jewish"}, COMMUNITY>>),
             P(<<{"catholic"}, COMMUNITY>>),
             P(<<{"muslim"}, COMMUNITY>>),
             P(<<{"religious"}, {"community", "neighborhood"}>>)>>
      [] category = "race_ethnicity" ->
           <<P(<<{"white"}, COMMUNITY>>),
             P(<<{"black"}, COMMUNITY>>),
             P(<<{"asian"}, COMMUNITY>>),
             P(<<{"hispanic"}, COMMUNITY>>),
             P(<<{"latino"}, COMMUNITY>>),
             P(<<{"caucasian"}>>),
             {<<Word({"african"}), Sep, Word({"american"}), Ws1,
                Word(COMMUNITY)>>},
             P(<<{"integrated"}, COMMUNITY>>),
             P(<<{"diverse"}, COMMUNITY>>),
             P(<<{"ethnic"}, COMMUNITY \cup {"enclave"}>>),
             {<<Word({"exclusively"}), Ws1, AnyWord, Ws1,
                Word({"neighborhood"})>>}>>
      [] category = "disability" ->
           <<P(<<{"no"}, {"wheelchair", "wheelchairs"}>>),
             {<<Word({"able"}), Sep, Word({"bodied"})>>},
             P(<<{"healthy"}, {"only"}>>),
             P(<<{"no"}, {"disabled"}>>),
             P(<<{"not"}, {"suitable"}, {"for"}, {"disabled"}>>),
             P(<<{"not"}, {"handicap", "handicapped"}, {"accessible"}>>),
             P(<<{"physically"}, {"fit"}>>),
             P(<<{"mentally"}, {"stable"}>>)>>
      [] category = "gender" ->
           <<P(<<{"male"}, {"only"}>>),
             P(<<{"female"}, {"only"}>>),
             P(<<{"male", "males"}, {"preferred"}>>),
             P(<<{"female", "females"}, {"preferred"}>>),
             P(<<{"bachelor"}, {"pad", "apartment", "living"}>>),
             P(<<{"gentleman", "gentleman's"},
                 {"apartment", "residence", "quarters"}>>),
             P(<<{"lady", "ladies"}, {"only"}>>),
             P(<<{"women"}, {"only"}>>),
             P(<<{"men"}, {"only"}>>)>>
      [] category = "age" ->
           <<P(<<{"senior", "seniors"},
                 {"only", "preferred", "community", "living"}>>),
             P(<<{"older"}, {"person", "persons"}, {"only", "preferred"}>>),
             P(<<{"retiree", "retirees"},
                 {"only", "preferred", "community"}>>),
             P(<<{"golden"}, {"age"}>>),
             P(<<{"young"}, {"professional", "professionals"}, {"only"}>>),
             P(<<{"millennial", "millennials"}, {"only"}>>),
             P(<<{"no"}, {"senior", "seniors"}>>),
             {<<Word({"age"}), Ws1, Digits, Ws0, Opt({"+"}), Ws1,
                Word({"only"})>>}>>
      [] category = "national_origin" ->
           <<P(<<{"american"}, {"only"}>>),
             P(<<{"citizen", "citizens"}, {"only"}>>),
             P(<<{"no"}, {"immigrant", "immigrants"}>>),
             P(<<{"english"}, {"speaker", "speakers"}, {"only"}>>),
             P(<<{"must"}, {"speak"}, {"english"}>>),
             {Spaced(<<{"foreigner", "foreigners"}, {"not"}, {"allowed"}>>),
              Spaced(<<{"foreigner", "foreigners"}, {"prohibited"}>>)}>>

\* PROHIBITED_PATTERNS[category]["severity"]
Severity(category) == "high"

\* PROHIBITED_PATTERNS[category]["suggestion"]
Suggestion(category) ==
    CASE category = "familial_status" ->
           "Describe the property features instead (e.g., '4 bedrooms' rather than 'perfect for families')"
      [] category = "religion" ->
           "Remove religious references. Focus on nearby amenities like parks, shops, transit."
      [] category = "race_ethnicity" ->
           "Remove all racial/ethnic references. Describe property features and amenities only."
      [] category = "disability" ->
           "Remove disability references. You may describe accessibility features positively (e.g., 'wheelchair ramp', 'elevator access')."
      [] category = "gender" ->
           "Remove gender preferences. Housing must be available equally to all."
      [] category = "age" ->
           "Remove age references unless this is a verified 55+ community with legal exemption."
      [] category = "national_origin" ->
           "Remove national origin references. Housing must be available to all regardless of origin."

\* the positions at which a match of the items that starts at i can end
RECURSIVE Ends(_, _, _)
Ends(items, text, i) ==
    IF items = <<>> THEN {i}
    ELSE LET it == Head(items)
             rest == Tail(items)
             n == Len(text)
             here(S) == i <= n /\ text[i] \in S
             run(ok(_), least) ==
                 {j \in (i + least)..(n + 1) : \A k \in i..(j - 1) : ok(text[k])}
         IN CASE it.k = "word" ->
                   IF here(it.w) THEN Ends(rest, text, i + 1) ELSE {}
              [] it.k = "\\s+" ->
                   UNION {Ends(rest, text, j) : j \in run(IsWhitespace, 1)}
              [] it.k = "\\s*" ->
                   UNION {Ends(rest, text, j) : j \in run(IsWhitespace, 0)}
              [] it.k = "[\\s-]" ->
                   IF here({" ", "\n", "-"}) THEN Ends(rest, text, i + 1)
                   ELSE {}
              [] it.k = "\\w+" ->
                   UNION {Ends(rest, text, j) : j \in run(IsWord, 1)}
              [] it.k = "\\d+" ->
                   UNION {Ends(rest, text, j) : j \in run(IsDigits, 1)}
              [] it.k = "?" ->
                   Ends(rest, text, i)
                   \cup (IF here(it.w) THEN Ends(rest, text, i + 1) ELSE {})

\* \b at position i: exactly one of the characters around it is a word
\* character
Boundary(text, i) ==
    LET before == i > 1 /\ IsWord(text[i - 1])
        after == i <= Len(text) /\ IsWord(text[i])
    IN before /= after

\* where the match of the pattern that starts at i ends; 0 when there is none
MatchEnd(pattern, text, i) ==
    LET ends == {e \in UNION {Ends(alt, text, i) : alt \in pattern} :
                    Boundary(text, e)}
    IN IF Boundary(text, i) /\ ends /= {}
       THEN CHOOSE e \in ends : \A e2 \in ends : e2 <= e
       ELSE 0

\* re.findall(pattern, text): the non-overlapping matches from the left,
\* each one the text of the outer group
RECURSIVE findall_from(_, _, _)
findall_from(pattern, text, i) ==
    IF i > Len(text) THEN <<>>
    ELSE LET e == MatchEnd(pattern, text, i)
         IN IF e = 0 THEN findall_from(pattern, text, i + 1)
            ELSE <<SubSeq(text, i, e - 1)>> \o findall_from(pattern, text, e)

findall(pattern, text) == findall_from(pattern, text, 1)

\* the matches of the category's patterns, in pattern order
RECURSIVE category_matches_from(_, _)
category_matches_from(patterns, text_lower) ==
    IF patterns = <<>> THEN <<>>
    ELSE findall(Head(patterns), text_lower)
         \o category_matches_from(Tail(patterns), text_lower)

category_matches_first_pattern(category, text_lower) ==
    findall(Head(Patterns(category)), text_lower)
category_matches(category, text_lower) ==
    category_matches_from(Patterns(category), text_lower)

\* list(dict.fromkeys(xs)): the first occurrence of each element, in order
RECURSIVE unique_matches(_)
unique_matches(xs) ==
    IF xs = <<>> THEN <<>>
    ELSE LET init == SubSeq(xs, 1, Len(xs) - 1)
             last == xs[Len(xs)]
         IN IF \E i \in DOMAIN init : init[i] = last
            THEN unique_matches(init)
            ELSE Append(unique_matches(init), last)

ComplianceViolation(category, matches, severity, suggestion) ==
    [category |-> category, matches |-> matches, severity |-> severity,
     suggestion |-> suggestion]

ComplianceResult(is_compliant, violations, message) ==
    [is_compliant |-> is_compliant, violations |-> violations,
     message |-> message]

\* the violations of the categories, in category order
RECURSIVE violations_from(_, _)
violations_from(cats, text_lower) ==
    IF cats = <<>> THEN <<>>
    ELSE LET category == Head(cats)
             found == category_matches(category, text_lower)
             more == violations_from(Tail(cats), text_lower)
         IN IF found /= <<>>
            THEN <<ComplianceViolation(category, unique_matches(found),
                                       Severity(category),
                                       Suggestion(category))>> \o more
            ELSE more

\* category.replace("_", " ").title()
Title(category) ==
    CASE category = "familial_status" -> "Familial Status"
      [] category = "religion" -> "Religion"
      [] category = "race_ethnicity" -> "Race Ethnicity"
      [] category = "disability" -> "Disability"
      [] category = "gender" -> "Gender"
      [] category = "age" -> "Age"
      [] category = "national_origin" -> "National Origin"

\* ', '.join(xs)
RECURSIVE join(_, _)
join(sep, xs) ==
    IF xs = <<>> THEN <<>>
    ELSE IF Len(xs) = 1 THEN <<xs[1]>>
    ELSE <<xs[1], sep>> \o join(sep, Tail(xs))

violation_message(violations) ==
    IF violations /= <<>>
    THEN <<"Fair Housing violations detected in: ">>
         \o join(", ", [i \in DOMAIN violations |-> Title(violations[i].category)])
         \o <<". Please revise content to describe the property, not potential residents.">>
    ELSE <<"Content is Fair Housing compliant">>

\* variant: empty content is reported as not compliant
no_content_result_flagged ==
    ComplianceResult(FALSE, <<>>, <<"No content to check">>)

\* the early return for falsy text
no_content_result ==
    ComplianceResult(TRUE, <<>>, <<"No content to check">>)

\* variant: the compliance flag ignores the violations found
checked_result_always_compliant(violations) ==
    ComplianceResult(TRUE, violations, violation_message(violations))

\* the final return
checked_result(violations) ==
    ComplianceResult(Len(violations) = 0, violations,
                     violation_message(violations))

\* check_fair_housing_compliance(text); text is None or a string
check_fair_housing_compliance(text) ==
    IF text = None \/ The(text) = <<>> THEN no_content_result
    ELSE checked_result(violations_from(Categories, Lower(The(text))))

\* the same for a value that is a string
check(text) == check_fair_housing_compliance(Some(text))

---------------------------------------------------------------------------
(* The checker applied to bounded texts.                                   *)

MaxPhrases == 3

Phrases ==
    {<<"adults", " ", "only">>, <<"No", " ", "Children">>,
     <<"near", " ", "church">>, <<"age", " ", "55", "+", " ", "only">>,
     <<" ">>, <<"non">>, <<"home">>}

\* the concatenations of n phrases
RECURSIVE PhraseTexts(_)
PhraseTexts(n) ==
    IF n = 0 THEN {<<>>}
    ELSE {p \o t : p \in Phrases, t \in PhraseTexts(n - 1)}

CheckTexts == UNION {PhraseTexts(n) : n \in 0..MaxPhrases}

InitCompliance ==
    /\ sanitize = None
    /\ categorize = None
    /\ video = None
    /\ cost_tracker = None
    /\ event_loop = None
    /\ task_call = None
    /\ gemini_service = None
    /\ walkthru = None
    /\ health = None
    /\ gemini = None
    /\ clean = None
    /\ openai_api_key = TRUE
    /\ gemini_api_key = TRUE
    /\ pc = "idle"
    /\ events = <<>>
    /\ primary_exc = None
    /\ secondary_exc = None
    /\ openai_error = None
    /\ result = None
    /\ raised = None
    /\ classify_in = None
    /\ classify_out = None
    /\ endpoint = None
    /\ refine = None
    /\ check_in \in {None} \cup {Some(t) : t \in CheckTexts}
    /\ check_out = None

\* one call of check_fair_housing_compliance
CheckCompliance ==
    /\ check_out = None
    /\ check_out' = Some(check_fair_housing_compliance(check_in))
    /\ UNCHANGED <<orch_vars, classify_in, classify_out, endpoint, refine, check_in, clean, gemini, health, walkthru, gemini_service, task_call, event_loop, cost_tracker, video, categorize, sanitize>>

NextCompliance == CheckCompliance

SpecCompliance == InitCompliance /\ [][NextCompliance]_vars

\* C20: the checker reports is_compliant exactly when it reports no
\* violation, and an empty or None text is compliant with no violation.
C20_CompliantIffNoViolations ==
    check_out /= None =>
        /\ The(check_out).is_compliant <=> The(check_out).violations = <<>>
        /\ (check_in = None \/ check_in = Some(<<>>)) =>
               /\ The(check_out).is_compliant
               /\ The(check_out).violations = <<>>

\* a text with two violating categories has been checked and found not
\* compliant
C20_Witness ==
    /\ check_out /= None
    /\ ~The(check_out).is_compliant
    /\ Len(The(check_out).violations) = 2

\* None has been checked
C20_WitnessNone == check_in = None /\ check_out /= None

---------------------------------------------------------------------------
(* Content refinement (endpoints/refine_content.py).  The variable refine  *)
(* is the state of one request: the request, the environment's API key,    *)
(* the log of the calls made, the provider's raw text or exception, and    *)
(* the outcome (a RefineContentResponse or a raised HTTPException).        *)

RefineContentResponse(success, refined_content, error, error_type, violations, message) ==
    [success |-> success, refined_content |-> refined_content,
     error |-> error, error_type |-> error_type, violations |-> violations,
     message |-> message]

HTTPException(status_code, detail) ==
    [status_code |-> status_code, detail |-> detail]

ComplianceViolationResponse(v) ==
    [category |-> v.category, matches |-> v.matches,
     severity |-> v.severity, suggestion |-> v.suggestion]

\* [ComplianceViolationResponse(...) for v in violations]
violation_responses(violations) ==
    [i \in DOMAIN violations |-> ComplianceViolationResponse(violations[i])]

valid_types == {"remarks", "features", "script"}

refusal_phrases ==
    <<<<"i", " ", "can't">>,
      <<"i", " ", "cannot">>,
      <<"i'm", " ", "not", " ", "able", " ", "to">>,
      <<"i", " ", "am", " ", "not", " ", "able", " ", "to">>,
      <<"violates", " ", "fair", " ", "housing">>,
      <<"fair", " ", "housing", " ", "violation">>,
      <<"discriminatory">>,
      <<"protected", " ", "class">>>>

\* any(phrase in refined_content.lower() for phrase in refusal_phrases)
is_refusal(refined_content) ==
    \E i \in DOMAIN refusal_phrases :
        Contains(Lower(refined_content), refusal_phrases[i])

ContentTypes == valid_types \cup {"blog"}

InstructionTexts ==
    {<<"make", " ", "it", " ", "shorter">>,
     <<"mention", " ", "the", " ", "non", "adults", " ", "only", " ", "pool">>,
     <<"say", " ", "Adults", " ", "only">>,
     <<"say", " ", "no", " ", "children", ",", " ", "near", " ", "church">>}

ProviderTexts ==
    {<<>>,
     <<"Bright", " ", "home">>,
     <<" ", "Bright", " ", "home", "\n">>,
     <<"I", " ", "cannot", " ", "do", " ", "that">>,
     <<"\n", "I", " ", "Cannot", "\n">>,
     <<"non", "discriminatory", " ", "home">>,
     <<"I", " ", "cannot", " ", "say", " ", "adults", " ", "only">>,
     <<"Adults", " ", "only">>,
     <<" ", "Adults", " ", "only", ",", " ", "near", " ", "church", " ">>}

AnthropicErrors ==
    {Exc("anthropic.APIConnectionError", None, 0, <<"Connection error.">>),
     Exc("anthropic.RateLimitError", Some(429), 429, <<"rate_limit_error">>),
     Exc("TypeError", None, 0, <<"bad argument">>)}

\* what client.messages.create can do: return a message whose first content
\* block has the text, return a message with no content block, or raise
AnthropicOutcomes ==
    {[kind |-> "return", content |-> Some(t), exc |-> None] :
         t \in ProviderTexts}
    \cup {[kind |-> "return", content |-> None, exc |-> None]}
    \cup {[kind |-> "raise", content |-> None, exc |-> Some(e)] :
              e \in AnthropicErrors}

RefineRequest(content_type, user_instruction, api_key) ==
    [pc |-> "idle", content_type |-> content_type,
     user_instruction |-> user_instruction, api_key |-> api_key,
     events |-> <<>>, provider_text |-> None, provider_exc |-> None,
     response |-> None, http_exc |-> None]

\* return response
respond(st, response) ==
    [st EXCEPT !.pc = "responded", !.response = Some(response)]

\* raise HTTPException(...)
raise_http(st, status_code, detail) ==
    [st EXCEPT !.pc = "raised",
               !.http_exc = Some(HTTPException(status_code, detail))]

instruction_violation_response(instruction_check) ==
    RefineContentResponse(FALSE, None, Some("compliance_violation"),
        Some("instruction_violation"),
        Some(violation_responses(instruction_check.violations)),
        Some(<<"Your refinement request contains language that may violate Fair Housing laws. Please rephrase without references to protected classes.">>))

ai_refusal_response(refined_content) ==
    RefineContentResponse(FALSE, None, Some("compliance_violation"),
        Some("ai_refusal"), None, Some(refined_content))

output_violation_response(compliance_check) ==
    RefineContentResponse(FALSE, None, Some("compliance_violation"),
        Some("output_violation"),
        Some(violation_responses(compliance_check.violations)),
        Some(<<"The refined content contains Fair Housing violations. Please try a different refinement approach.">>))

success_response(refined_content) ==
    RefineContentResponse(TRUE, Some(refined_content), None, None, None,
        Some(<<"Content refined successfully">>))

\* the call of client.messages.create
call_anthropic(st) ==
    [st EXCEPT !.pc = "await_anthropic",
               !.events = Append(@, "anthropic_call")]

\* variant: the API key is looked up before the instruction is checked
refine_start_key_first(st) ==
    IF st.content_type \notin valid_types
    THEN raise_http(st, 400, <<"Invalid content_type. Must be one of: ['remarks', 'features', 'script']">>)
    ELSE IF ~st.api_key
    THEN raise_http(st, 503, <<"Anthropic API key not configured">>)
    ELSE LET instruction_check == check(st.user_instruction)
             checked == [st EXCEPT !.events = Append(@, "instruction_check")]
         IN IF ~instruction_check.is_compliant
            THEN respond(checked, instruction_violation_response(instruction_check))
            ELSE call_anthropic(checked)

\* refine_content from its entry to the provider call
refine_start(st) ==
    IF st.content_type \notin valid_types
    THEN raise_http(st, 400, <<"Invalid content_type. Must be one of: ['remarks', 'features', 'script']">>)
    ELSE LET instruction_check == check(st.user_instruction)
             checked == [st EXCEPT !.events = Append(@, "instruction_check")]
         IN IF ~instruction_check.is_compliant
            THEN respond(checked, instruction_violation_response(instruction_check))
            ELSE IF ~st.api_key
            THEN raise_http(checked, 503, <<"Anthropic API key not configured">>)
            ELSE call_anthropic(checked)

\* variant: the provider's text is used as returned
trimmed_untrimmed(text) == text

\* response.content[0].text.strip()
trimmed(text) == Strip(text)

\* variant: the compliance check comes before the refusal check
validate_refined_check_first(st, refined_content) ==
    LET compliance_check == check(refined_content)
        checked == [st EXCEPT !.events = Append(@, "output_check")]
    IN IF ~compliance_check.is_compliant
       THEN respond(checked, output_violation_response(compliance_check))
       ELSE IF is_refusal(refined_content)
       THEN respond(checked, ai_refusal_response(refined_content))
       ELSE respond(checked, success_response(refined_content))

\* refine_content from the refusal check to its return
validate_refined(st, refined_content) ==
    IF is_refusal(refined_content)
    THEN respond(st, ai_refusal_response(refined_content))
    ELSE LET compliance_check == check(refined_content)
             checked == [st EXCEPT !.events = Append(@, "output_check")]
         IN IF ~compliance_check.is_compliant
            THEN respond(checked, output_violation_response(compliance_check))
            ELSE respond(checked, success_response(refined_content))

\* the except clauses
refine_except(st, e) ==
    IF isinstance(e, {"anthropic.APIError"})
    THEN raise_http(st, 503, <<"AI service error: ">> \o str(e))
    ELSE raise_http(st, 500, <<"Content refinement failed: ">> \o str(e))

\* variant: a failed provider call is attempted once more
refine_failed_retry(st, e) ==
    IF Len(SelectSeq(st.events, LAMBDA ev : ev = "anthropic_call")) < 2
    THEN call_anthropic([st EXCEPT !.provider_exc = Some(e)])
    ELSE refine_except([st EXCEPT !.provider_exc = Some(e)], e)

\* the provider call raised
refine_failed(st, e) ==
    refine_except([st EXCEPT !.provider_exc = Some(e)], e)

\* refine_content from the provider's answer on
refine_after_provider(st, out) ==
    IF out.kind = "raise" THEN refine_failed(st, The(out.exc))
    ELSE IF out.content = None
    THEN refine_except(st, Exc("IndexError", None, 0, <<"list index out of range">>))
    ELSE validate_refined([st EXCEPT !.provider_text = out.content],
                          trimmed(The(out.content)))

InitRefine ==
    /\ sanitize = None
    /\ categorize = None
    /\ video = None
    /\ cost_tracker = None
    /\ event_loop = None
    /\ task_call = None
    /\ gemini_service = None
    /\ walkthru = None
    /\ health = None
    /\ gemini = None
    /\ clean = None
    /\ openai_api_key = TRUE
    /\ gemini_api_key = TRUE
    /\ pc = "idle"
    /\ events = <<>>
    /\ primary_exc = None
    /\ secondary_exc = None
    /\ openai_error = None
    /\ result = None
    /\ raised = None
    /\ classify_in = None
    /\ classify_out = None
    /\ endpoint = None
    /\ check_in = None
    /\ check_out = None
    /\ refine \in {RefineRequest(ct, ui, key) :
                      ct \in ContentTypes, ui \in InstructionTexts,
                      key \in BOOLEAN}

\* POST /api/refine-content up to the provider call
RefineContent ==
    /\ refine.pc = "idle"
    /\ refine' = refine_start(refine)
    /\ UNCHANGED <<orch_vars, classify_in, classify_out, endpoint, check_in, check_out, clean, gemini, health, walkthru, gemini_service, task_call, event_loop, cost_tracker, video, categorize, sanitize>>

\* client.messages.create returns or raises; the handler runs to its end
AnthropicResponds ==
    /\ refine.pc = "await_anthropic"
    /\ \E out \in AnthropicOutcomes : refine' = refine_after_provider(refine, out)
    /\ UNCHANGED <<orch_vars, classify_in, classify_out, endpoint, check_in, check_out, clean, gemini, health, walkthru, gemini_service, task_call, event_loop, cost_tracker, video, categorize, sanitize>>

NextRefine == RefineContent \/ AnthropicResponds

SpecRefine == InitRefine /\ [][NextRefine]_vars

\* the number of times ev is in the log
CountIn(evs, ev) == Len(SelectSeq(evs, LAMBDA x : x = ev))

RefineDone == refine.pc \in {"responded", "raised"}

\* the checker finds a violation in the text
Violates(text) == violations_from(Categories, Lower(text)) /= <<>>

RefineResponseIs(error_type) ==
    /\ refine.pc = "responded"
    /\ ~The(refine.response).success
    /\ The(refine.response).error_type = Some(error_type)

\* C13: a request (of a valid content type) whose edit instruction violates
\* Fair Housing never invokes the provider, with or without an API key, and
\* ends as the failure "instruction_violation" carrying the violations the
\* checker found.
C13_InstructionViolation ==
    (refine.content_type \in valid_types /\ Violates(refine.user_instruction))
    => /\ CountIn(refine.events, "anthropic_call") = 0
       /\ refine.pc /= "await_anthropic"
       /\ refine.pc /= "idle" =>
             /\ RefineResponseIs("instruction_violation")
             /\ The(refine.response).violations =
                    Some(check(refine.user_instruction).violations)

\* an instruction violation was answered although no API key is configured
C13_Witness ==
    /\ RefineResponseIs("instruction_violation")
    /\ ~refine.api_key
    /\ Len(The(The(refine.response).violations)) = 2

\* the provider's text holds a refusal phrase
ProviderRefused ==
    refine.provider_text /= None /\ is_refusal(The(refine.provider_text))

\* C14 (as stated): a provider text with a refusal phrase ends as the
\* failure "ai_refusal" whose message is the provider's text, and the
\* output compliance check is not run.
C14_RefusalMessageIsProviderText ==
    (RefineDone /\ ProviderRefused)
    => /\ RefineResponseIs("ai_refusal")
       /\ CountIn(refine.events, "output_check") = 0
       /\ The(refine.response).message = refine.provider_text

\* C14 (amended): a provider text with a refusal phrase ends as the failure
\* "ai_refusal" whose message is the provider's text with the surrounding
\* whitespace trimmed, and the output compliance check is not run.
C14_RefusalMessageIsTrimmedText ==
    (RefineDone /\ ProviderRefused)
    => /\ RefineResponseIs("ai_refusal")
       /\ CountIn(refine.events, "output_check") = 0
       /\ The(refine.response).message =
              Some(Strip(The(refine.provider_text)))

\* a refusal that also holds a Fair Housing violation was answered
C14_Witness ==
    /\ RefineDone
    /\ ProviderRefused
    /\ Violates(The(refine.provider_text))
    /\ RefineResponseIs("ai_refusal")

\* C15: a provider text with no refusal phrase in which the checker finds a
\* violation ends as the failure "output_violation" carrying the violations,
\* and no refined_content is returned.
C15_OutputViolation ==
    (/\ RefineDone
     /\ refine.provider_text /= None
     /\ ~ProviderRefused
     /\ Violates(The(refine.provider_text)))
    => /\ RefineResponseIs("output_violation")
       /\ The(refine.response).violations =
              Some(check(The(refine.provider_text)).violations)
       /\ The(refine.response).refined_content = None

\* a violating provider text was answered with its two violations
C15_Witness ==
    /\ RefineResponseIs("output_violation")
    /\ Len(The(The(refine.response).violations)) = 2

RefineSucceeded ==
    refine.pc = "responded" /\ The(refine.response).success

\* C16: a success=true response means that the instruction passed the
\* check, the provider was invoked exactly once, its text holds no refusal
\* phrase and passes the check, and refined_content is that text trimmed.
C16_SuccessMeansAllGatesPassed ==
    RefineSucceeded
    => /\ check(refine.user_instruction).is_compliant
       /\ ~Violates(refine.user_instruction)
       /\ CountIn(refine.events, "anthropic_call") = 1
       /\ refine.provider_text /= None
       /\ ~ProviderRefused
       /\ ~Violates(The(refine.provider_text))
       /\ check(Strip(The(refine.provider_text))).is_compliant
       /\ The(refine.response).refined_content =
              Some(Strip(The(refine.provider_text)))

\* a success whose provider text had surrounding whitespace
C16_Witness ==
    /\ RefineSucceeded
    /\ The(refine.provider_text) /= Strip(The(refine.provider_text))
    /\ The(refine.provider_text) /= <<>>

\* C17: the designated provider is called at most once, a failure of that
\* call ends the request with a raised error, and no other provider is
\* called.
C17_SingleProvider ==
    /\ CountIn(refine.events, "anthropic_call") <= 1
    /\ events = <<>>
    /\ refine.provider_exc /= None =>
           /\ refine.pc = "raised"
           /\ refine.response = None
           /\ ~ENABLED NextRefine

\* the provider call failed
C17_Witness ==
    /\ refine.provider_exc /= None
    /\ isinstance(The(refine.provider_exc), {"anthropic.APIError"})
    /\ The(refine.http_exc).status_code = 503

---------------------------------------------------------------------------
(* Generation endpoints (main.py, endpoints/listinggopher.py).  The        *)
(* variable endpoint is the state of one request from the call of          *)
(* generate_content_with_fallback on: the endpoint, the log of what the    *)
(* handler called, and the outcome (a response model or a raised           *)
(* HTTPException).  A provider text for the features endpoint is a JSON    *)
(* object with the one key all_features, or not JSON at all.               *)

\* variant: the text is not stripped again after the fence is removed
clean_json_response_unstripped(response_text) ==
    LET text == Strip(response_text)
    IN IF text /= <<>> /\ text[1] \in {"<fence>", "<fence>json"}
       THEN LET newlines == {i \in DOMAIN text : text[i] = "\n"}
                first_newline ==
                    CHOOSE i \in newlines : \A j \in newlines : i <= j
                text2 == IF newlines /= {}
                         THEN SubSeq(text, first_newline + 1, Len(text))
                         ELSE text
            IN IF text2 /= <<>> /\ text2[Len(text2)] = "<fence>"
               THEN SubSeq(text2, 1, Len(text2) - 1)
               ELSE text2
       ELSE text

\* clean_json_response(response_text)
clean_json_response(response_text) ==
    LET text == Strip(response_text)
    IN IF text /= <<>> /\ text[1] \in {"<fence>", "<fence>json"}
       THEN LET newlines == {i \in DOMAIN text : text[i] = "\n"}
                first_newline ==
                    CHOOSE i \in newlines : \A j \in newlines : i <= j
                text2 == IF newlines /= {}
                         THEN SubSeq(text, first_newline + 1, Len(text))
                         ELSE text
                text3 == IF text2 /= <<>> /\ text2[Len(text2)] = "<fence>"
                         THEN SubSeq(text2, 1, Len(text2) - 1)
                         ELSE text2
            IN Strip(text3)
       ELSE text

\* s.split(sep) of a chunk sequence at the chunk sep
RECURSIVE Split(_, _)
Split(text, sep) ==
    LET seps == {i \in DOMAIN text : text[i] = sep}
    IN IF seps = {} THEN <<text>>
       ELSE LET i == CHOOSE i \in seps : \A j \in seps : i <= j
            IN <<SubSeq(text, 1, i - 1)>>
               \o Split(SubSeq(text, i + 1, Len(text)), sep)

\* chunks that can stand inside a JSON string
JsonStringChunk(t) == IsWord(t) \/ t \in {" ", ",", ".", "-", "+"}

\* json.loads(text): the parsed all_features, or a JSONDecodeError
json_loads(text) ==
    IF /\ Len(text) >= 2
       /\ text[1] = "{\"all_features\": [\""
       /\ text[Len(text)] = "\"]}"
       /\ \A i \in 2..(Len(text) - 1) :
              JsonStringChunk(text[i]) \/ text[i] = "\", \""
    THEN [ok |-> TRUE,
          all_features |-> Split(SubSeq(text, 2, Len(text) - 1), "\", \"")]
    ELSE [ok |-> FALSE, all_features |-> <<>>]

\* sep.join(texts) of texts
RECURSIVE join_texts(_, _)
join_texts(sep, texts) ==
    IF texts = <<>> THEN <<>>
    ELSE IF Len(texts) = 1 THEN texts[1]
    ELSE texts[1] \o <<sep>> \o join_texts(sep, Tail(texts))

\* len(text.split())
word_count(text) ==
    Cardinality({i \in DOMAIN text :
                    /\ ~IsWhitespace(text[i])
                    /\ (i = 1 \/ IsWhitespace(text[i - 1]))})

\* xs[:n]
Take(xs, n) == SubSeq(xs, 1, IF n < Len(xs) THEN n ELSE Len(xs))

\* x or 0
or0(x) == IF x = None THEN 0 ELSE The(x)

\* FeaturesRequest.max_features (its default)
max_features == 30

EndpointKinds ==
    {"public_remarks", "features", "draft_text", "review", "summarize",
     "walkthru"}

MainEndpoints == {"public_remarks", "features"}

\* the /generate/* document endpoints (endpoints/listinggopher)
DocumentEndpoints == {"draft_text", "review", "summarize", "walkthru"}

EndpointRequest(kind) ==
    [kind |-> kind, pc |-> "idle", gen_calls |-> 0, sanitize_calls |-> 0,
     checked |-> <<>>, usage_records |-> <<>>, response |-> None,
     http_exc |-> None, documents |-> TRUE]

UsageMetrics(res) ==
    [input_tokens |-> or0(res.input_tokens),
     output_tokens |-> or0(res.output_tokens),
     total_tokens |-> or0(res.input_tokens) + or0(res.output_tokens),
     model_used |-> res.model_used,
     provider |-> IF res.provider_used = <<"openai">> THEN "openai"
                  ELSE "google",
     is_fallback |-> res.is_fallback]

PublicRemarksResponse(text, usage) ==
    [success |-> TRUE, text |-> text, word_count |-> word_count(text),
     usage |-> usage]

FeaturesResponse(features_list, usage) ==
    [success |-> TRUE, features_list |-> features_list,
     total_features |-> Len(features_list), usage |-> usage]

GenerationResponse(success, generated_text, token_count, error) ==
    [success |-> success, generated_text |-> generated_text,
     ai_cost |-> 0, token_count |-> token_count, error |-> error]

\* variant: the violations are left out of the detail
compliance_detail_without_violations(message, violations) ==
    [error |-> "compliance_violation", message |-> message,
     violations |-> <<>>]

\* the detail of the HTTP 422 raised for a compliance violation
compliance_detail(message, violations) ==
    [error |-> "compliance_violation", message |-> message,
     violations |->
         [i \in DOMAIN violations |->
             [category |-> violations[i].category,
              matches |-> violations[i].matches,
              suggestion |-> violations[i].suggestion]]]

\* cost_tracker.record_usage(...)
record_usage(ep, res, task) ==
    [ep EXCEPT !.usage_records =
        Append(@, [provider |-> res.provider_used,
                   model |-> res.model_used, task |-> task,
                   input_tokens |-> or0(res.input_tokens),
                   output_tokens |-> or0(res.output_tokens)])]

\* check_fair_housing_compliance(text), logged
with_check(ep, text) == [ep EXCEPT !.checked = Append(@, text)]

\* the success response of the endpoint for this res
success_body(kind, res) ==
    CASE kind = "public_remarks" ->
           PublicRemarksResponse(Strip(res.content), UsageMetrics(res))
      [] kind = "features" ->
           FeaturesResponse(
               Take(json_loads(clean_json_response(res.content)).all_features,
                    max_features),
               UsageMetrics(res))
      [] OTHER ->
           GenerationResponse(TRUE, Strip(res.content),
               or0(res.input_tokens) + or0(res.output_tokens), None)

\* variant: the usage is recorded before the compliance check
public_remarks_after_result_record_first(ep, res) ==
    IF ~res.success
    THEN raise_http(ep, 500, <<"AI generation failed: ">> \o The(res.error))
    ELSE LET generated_text == Strip(res.content)
             compliance_result == check(generated_text)
             checked == with_check(record_usage(ep, res, "public_remarks"),
                                   generated_text)
         IN IF ~compliance_result.is_compliant
            THEN raise_http(checked, 422,
                     compliance_detail(
                         <<"Generated content contains Fair Housing violations. Please try again.">>,
                         compliance_result.violations))
            ELSE respond(checked, success_body("public_remarks", res))

\* generate_public_remarks_endpoint after the orchestrator returned
public_remarks_after_result(ep, res) ==
    IF ~res.success
    THEN raise_http(ep, 500, <<"AI generation failed: ">> \o The(res.error))
    ELSE LET generated_text == Strip(res.content)
             compliance_result == check(generated_text)
             checked == with_check(ep, generated_text)
         IN IF ~compliance_result.is_compliant
            THEN raise_http(checked, 422,
                     compliance_detail(
                         <<"Generated content contains Fair Housing violations. Please try again.">>,
                         compliance_result.violations))
            ELSE respond(record_usage(checked, res, "public_remarks"),
                         success_body("public_remarks", res))

\* generate_features_endpoint after the orchestrator returned
features_after_result(ep, res) ==
    IF ~res.success
    THEN raise_http(ep, 500, <<"AI generation failed: ">> \o The(res.error))
    ELSE LET parsed_data == json_loads(clean_json_response(res.content))
         IN IF ~parsed_data.ok
            THEN raise_http(ep, 500, <<"AI returned invalid JSON for features. Please try again.">>)
            ELSE LET features_list ==
                         Take(parsed_data.all_features, max_features)
                     all_features_text == join_texts(" ", features_list)
                     compliance_result == check(all_features_text)
                     checked == with_check(ep, all_features_text)
                 IN IF ~compliance_result.is_compliant
                    THEN raise_http(checked, 422,
                             compliance_detail(
                                 <<"Generated features contain Fair Housing violations. Please try again.">>,
                                 compliance_result.violations))
                    ELSE respond(record_usage(checked, res, "features"),
                                 success_body("features", res))

\* generate_review, generate_summarize when process_documents found neither
\* text nor images
no_documents_response(ep) ==
    respond(ep, GenerationResponse(FALSE, <<>>, 0,
        Some(IF ep.kind = "review"
             THEN <<"No documents provided to review">>
             ELSE <<"No documents provided to summarize">>)))

\* the document endpoints after the orchestrator returned
listinggopher_after_result(ep, res) ==
    IF ~res.success
    THEN respond(ep, GenerationResponse(FALSE, <<>>, 0,
             IF res.error /= None /\ The(res.error) /= <<>>
             THEN res.error ELSE Some(<<"AI generation failed">>)))
    ELSE respond(ep, success_body(ep.kind, res))

\* the except Exception clause of the endpoint
endpoint_except(ep, e) ==
    CASE ep.kind = "public_remarks" ->
           raise_http(ep, 500, <<"Failed to generate public remarks: ">> \o str(e))
      [] ep.kind = "features" ->
           raise_http(ep, 500, <<"Failed to generate features: ">> \o str(e))
      [] OTHER ->
           respond(ep, GenerationResponse(FALSE, <<>>, 0, Some(str(e))))

\* the endpoint after this step of the orchestrator
endpoint_continue(ep, st) ==
    IF st.pc = "returned" THEN
        CASE ep.kind = "public_remarks" ->
               public_remarks_after_result(ep, The(st.result))
          [] ep.kind = "features" ->
               features_after_result(ep, The(st.result))
          [] OTHER -> listinggopher_after_result(ep, The(st.result))
    ELSE IF st.pc = "raised" THEN endpoint_except(ep, The(st.raised))
    ELSE ep

\* one step of the orchestrator and, when it ended, the rest of the handler
ApplyEndpoint(ep, st) ==
    /\ ApplyFrame(st)
    /\ endpoint' = endpoint_continue(ep, st)
    /\ UNCHANGED <<openai_api_key, gemini_api_key, classify_in, classify_out, refine, check_in, check_out, clean, gemini, health, walkthru, gemini_service, task_call, event_loop, cost_tracker, video, categorize, sanitize>>

InitEndpoints ==
    /\ sanitize = None
    /\ categorize = None
    /\ video = None
    /\ cost_tracker = None
    /\ event_loop = None
    /\ task_call = None
    /\ gemini_service = None
    /\ walkthru = None
    /\ health = None
    /\ gemini = None
    /\ clean = None
    /\ openai_api_key \in BOOLEAN
    /\ gemini_api_key \in BOOLEAN
    /\ pc = "idle"
    /\ events = <<>>
    /\ primary_exc = None
    /\ secondary_exc = None
    /\ openai_error = None
    /\ result = None
    /\ raised = None
    /\ classify_in = None
    /\ classify_out = None
    /\ refine = None
    /\ check_in = None
    /\ check_out = None
    /\ endpoint \in {EndpointRequest(kind) : kind \in EndpointKinds}
                    \cup {[EndpointRequest(kind) EXCEPT !.documents = FALSE] :
                             kind \in DocumentEndpoints}

\* the handler awaits generate_content_with_fallback(...)
EndpointCalls ==
    /\ endpoint.pc = "idle"
    /\ pc = "idle"
    /\ IF endpoint.kind \in {"review", "summarize"} /\ ~endpoint.documents
       THEN ApplyEndpoint(no_documents_response(endpoint), Frame)
       ELSE ApplyEndpoint([endpoint EXCEPT !.pc = "running", !.gen_calls = @ + 1],
                          start_primary(Frame, gemini_api_key, openai_api_key))

\* client.responses.create completes under the handler
EndpointOpenAIResponds ==
    /\ endpoint.pc = "running"
    /\ pc = "await_openai"
    /\ \E api \in OpenAIApiOutcomes :
        ApplyEndpoint(endpoint, after_primary(
            [Frame EXCEPT !.events = @ \o <<"openai_api_end">>],
            _generate_with_openai(api), gemini_api_key, openai_api_key))

\* model.generate_content_async completes under the handler
EndpointGeminiResponds ==
    /\ endpoint.pc = "running"
    /\ pc = "await_gemini"
    /\ \E api \in GeminiApiOutcomes :
        ApplyEndpoint(endpoint, after_secondary(
            [Frame EXCEPT !.events = @ \o <<"gemini_api_end">>],
            _generate_with_gemini(api)))

NextEndpoints ==
    EndpointCalls \/ EndpointOpenAIResponds \/ EndpointGeminiResponds

SpecEndpoints == InitEndpoints /\ [][NextEndpoints]_vars

EndpointDone == endpoint.pc \in {"responded", "raised"}

EndpointSucceeded ==
    endpoint.pc = "responded" /\ The(endpoint.response).success

\* what the client receives: the response model, or the HTTPException as
\* FastAPI renders it (its status code and the body {"detail": detail})
client_response(ep) ==
    IF ep.pc = "responded"
    THEN [status_code |-> 200, body |-> The(ep.response)]
    ELSE [status_code |-> The(ep.http_exc).status_code,
          body |-> [detail |-> The(ep.http_exc).detail]]

\* the generated text a success response returns
returned_text(ep) ==
    CASE ep.kind = "public_remarks" -> The(ep.response).text
      [] ep.kind = "features" ->
           join_texts(" ", The(ep.response).features_list)
      [] OTHER -> The(ep.response).generated_text

\* C11: when the checker finds a violation in the generated output of the
\* public-remarks or features endpoint, the request ends with HTTP 422
\* "compliance_violation" carrying the category, matches and suggestion of
\* every violation; generate_content_with_fallback was called once, nothing
\* further runs, and sanitize_content is not called.
C11_ComplianceViolationSurfaced ==
    (/\ endpoint.kind \in MainEndpoints
     /\ endpoint.checked /= <<>>
     /\ Violates(endpoint.checked[1]))
    => /\ endpoint.pc = "raised"
       /\ client_response(endpoint).status_code = 422
       /\ client_response(endpoint).body.detail.error = "compliance_violation"
       /\ client_response(endpoint).body.detail.violations =
              LET vs == check(endpoint.checked[1]).violations
              IN [i \in DOMAIN vs |->
                     [category |-> vs[i].category, matches |-> vs[i].matches,
                      suggestion |-> vs[i].suggestion]]
       /\ endpoint.gen_calls = 1
       /\ Len(endpoint.checked) = 1
       /\ endpoint.sanitize_calls = 0
       /\ endpoint.usage_records = <<>>
       /\ ~ENABLED NextEndpoints

\* the features endpoint raised the compliance failure for a text the
\* secondary provider generated
C11_Witness ==
    /\ endpoint.kind = "features"
    /\ endpoint.pc = "raised"
    /\ The(endpoint.http_exc).status_code = 422
    /\ The(result).is_fallback

\* C12: no success=true response of an endpoint that returns generated text
\* holds a text in which the checker finds a violation.
C12_NoViolatingTextReturned ==
    EndpointSucceeded => ~Violates(returned_text(endpoint))

\* C18: every terminal outcome is a response body that carries a success
\* flag.
C18_EveryOutcomeCarriesSuccessFlag ==
    EndpointDone => "success" \in DOMAIN client_response(endpoint).body

\* the result another provider would have returned with the same content and
\* token counts
OtherProvider(res) ==
    IF res.provider_used = <<"openai">>
    THEN [res EXCEPT !.provider_used = <<"gemini">>,
                     !.model_used = GEMINI_MODEL, !.is_fallback = TRUE]
    ELSE [res EXCEPT !.provider_used = <<"openai">>,
                     !.model_used = OPENAI_MODEL, !.is_fallback = FALSE]

\* C19: a success response is the one the endpoint gives when the other
\* provider serves the request with the same content and token counts.
C19_ProviderIdentityHidden ==
    EndpointSucceeded =>
        success_body(endpoint.kind, OtherProvider(The(result)))
            = The(endpoint.response)

---------------------------------------------------------------------------
(* Service-level calls made outside a request to the endpoints above.      *)

base_vars == <<orch_vars, classify_in, classify_out, ext_vars>>

\* both provider keys are configured
KeysConfigured == openai_api_key = TRUE /\ gemini_api_key = TRUE

\* none of the requests and calls above is in progress
BaseIdle ==
    /\ pc = "idle"
    /\ events = <<>>
    /\ primary_exc = None
    /\ secondary_exc = None
    /\ openai_error = None
    /\ result = None
    /\ raised = None
    /\ classify_in = None
    /\ classify_out = None
    /\ endpoint = None
    /\ refine = None
    /\ check_in = None
    /\ check_out = None

---------------------------------------------------------------------------
(* clean_json_response applied to bounded texts, once and twice.           *)

MaxCleanLen == 5

CleanVocabulary == {"<fence>", "<fence>json", "\n", "{}"}

\* JSON object texts: on one line, and spread over lines
JsonObjectTexts ==
    {<<"{}">>,
     <<"{\"all_features\": [\"", "Pool", "\"]}">>,
     <<"{", "\n", " ", "\"a\": 1", "\n", "}">>}

\* j inside a Markdown code fence, with or without the language tag
Fenced(j) ==
    {pre \o <<open, "\n">> \o j \o mid \o <<"<fence>">> \o post :
        open \in {"<fence>", "<fence>json"}, mid \in {<<>>, <<"\n">>},
        pre \in {<<>>, <<" ">>}, post \in {<<>>, <<"\n">>}}

CleanInputs ==
    UNION {[1..n -> CleanVocabulary] : n \in 0..MaxCleanLen}
    \cup JsonObjectTexts
    \cup UNION {Fenced(j) : j \in JsonObjectTexts}

InitCleanJson ==
    /\ sanitize = None
    /\ categorize = None
    /\ video = None
    /\ cost_tracker = None
    /\ event_loop = None
    /\ task_call = None
    /\ gemini_service = None
    /\ walkthru = None
    /\ health = None
    /\ gemini = None
    /\ BaseIdle
    /\ KeysConfigured
    /\ clean \in {[text |-> t, once |-> None, twice |-> None] :
                     t \in CleanInputs}

\* clean_json_response(text)
CleanOnce ==
    /\ clean.once = None
    /\ clean' = [clean EXCEPT !.once = Some(clean_json_response(clean.text))]
    /\ UNCHANGED <<base_vars, gemini, health, walkthru, gemini_service, task_call, event_loop, cost_tracker, video, categorize, sanitize>>

\* clean_json_response(clean_json_response(text))
CleanTwice ==
    /\ clean.once /= None
    /\ clean.twice = None
    /\ clean' = [clean EXCEPT
                    !.twice = Some(clean_json_response(The(clean.once)))]
    /\ UNCHANGED <<base_vars, gemini, health, walkthru, gemini_service, task_call, event_loop, cost_tracker, video, categorize, sanitize>>

NextCleanJson == CleanOnce \/ CleanTwice

SpecCleanJson == InitCleanJson /\ [][NextCleanJson]_vars

\* the text is the JSON object text j, plain or inside a fence
IsJsonInput(j) == clean.text = j \/ clean.text \in Fenced(j)

---------------------------------------------------------------------------
(* _generate_with_gemini with its image loop.  The variable gemini is the  *)
(* frame of one call: the arguments, the index of the URL being            *)
(* downloaded, content_parts, the indices whose download failed, the       *)
(* content_parts the API was called with and what the call ended with.     *)

MaxPhotos == 3

PhotoUrls == {"https://x/1.jpg", "data:image/png;base64,QUJD"}

PhotoLists == UNION {[1..n -> PhotoUrls] : n \in 0..MaxPhotos}

\* what download_image_as_base64(url) can do: return the image, or raise
DownloadOutcomes(url) ==
    {[kind |-> "return",
      img_data |-> Some([media_type |-> mt, data |-> url]), exc |-> None] :
        mt \in {"image/jpeg", "image/png"}}
    \cup {[kind |-> "raise", img_data |-> None, exc |-> Some(e)] :
             e \in {Exc("httpx.ConnectError", None, 0, <<"a">>),
                    Exc("httpx.HTTPStatusError", None, 404, <<"b">>),
                    Exc("binascii.Error", None, 0, <<"a">>)}}

GeminiCall(system_prompt, user_prompt, photo_urls) ==
    [pc |-> "idle", system_prompt |-> system_prompt,
     user_prompt |-> user_prompt, photo_urls |-> photo_urls, i |-> 1,
     content_parts |-> <<>>, failed |-> {}, sent |-> None, out |-> None]

\* the code after the image loop up to the API call
gemini_call_api(st) ==
    LET full_prompt == <<st.system_prompt, "\n\n", st.user_prompt>>
        content_parts == Append(st.content_parts,
                                [mime_type |-> "text", data |-> full_prompt])
    IN [st EXCEPT !.pc = "await_api", !.content_parts = content_parts,
                  !.sent = Some(content_parts)]

\* the loop from the URL at index i on, up to its next await
gemini_next_url(st) ==
    IF st.i > Len(st.photo_urls) THEN gemini_call_api(st)
    ELSE [st EXCEPT !.pc = "download"]

\* variant: a failed download ends the call
gemini_after_download_abort(st, d) ==
    IF d.kind = "return"
    THEN gemini_next_url(
             [st EXCEPT !.content_parts =
                            Append(@, [mime_type |-> The(d.img_data).media_type,
                                       data |-> The(d.img_data).data]),
                        !.i = @ + 1])
    ELSE [st EXCEPT !.pc = "raised", !.failed = @ \cup {st.i},
                    !.out = Some(Raise(The(d.exc)))]

\* the loop body from the outcome of download_image_as_base64 on
gemini_after_download(st, d) ==
    IF d.kind = "return"
    THEN gemini_next_url(
             [st EXCEPT !.content_parts =
                            Append(@, [mime_type |-> The(d.img_data).media_type,
                                       data |-> The(d.img_data).data]),
                        !.i = @ + 1])
    ELSE gemini_next_url([st EXCEPT !.failed = @ \cup {st.i}, !.i = @ + 1])

\* _generate_with_gemini from its entry to its first await
gemini_start(st, gemini_key, openai_key) ==
    IF ~gemini_key_ok(gemini_key, openai_key)
    THEN [st EXCEPT !.pc = "raised",
                    !.out = Some(Raise(InfrastructureError(
                                <<"Gemini API key not configured">>)))]
    ELSE gemini_next_url(st)

\* _generate_with_gemini from the API call's outcome on
gemini_finish(st, api) ==
    LET out == _generate_with_gemini(api)
    IN [st EXCEPT !.pc = IF out.kind = "return" THEN "returned" ELSE "raised",
                  !.out = Some(out)]

InitGeminiImages ==
    /\ sanitize = None
    /\ categorize = None
    /\ video = None
    /\ cost_tracker = None
    /\ event_loop = None
    /\ task_call = None
    /\ gemini_service = None
    /\ walkthru = None
    /\ health = None
    /\ BaseIdle
    /\ KeysConfigured
    /\ clean = None
    /\ gemini \in {GeminiCall("SYSTEM", "USER", urls) : urls \in PhotoLists}

GeminiStarts ==
    /\ gemini.pc = "idle"
    /\ gemini' = gemini_start(gemini, gemini_api_key, openai_api_key)
    /\ UNCHANGED <<base_vars, clean, health, walkthru, gemini_service, task_call, event_loop, cost_tracker, video, categorize, sanitize>>

\* download_image_as_base64 completes
ImageDownloadCompletes ==
    /\ gemini.pc = "download"
    /\ \E d \in DownloadOutcomes(gemini.photo_urls[gemini.i]) :
           gemini' = gemini_after_download(gemini, d)
    /\ UNCHANGED <<base_vars, clean, health, walkthru, gemini_service, task_call, event_loop, cost_tracker, video, categorize, sanitize>>

\* model.generate_content_async completes
GeminiApiCompletes ==
    /\ gemini.pc = "await_api"
    /\ \E api \in GeminiApiOutcomes : gemini' = gemini_finish(gemini, api)
    /\ UNCHANGED <<base_vars, clean, health, walkthru, gemini_service, task_call, event_loop, cost_tracker, video, categorize, sanitize>>

NextGeminiImages ==
    GeminiStarts \/ ImageDownloadCompletes \/ GeminiApiCompletes

SpecGeminiImages == InitGeminiImages /\ [][NextGeminiImages]_vars

\* the URLs at the indices in keep, in their order in photo_urls
RECURSIVE UrlsKept(_, _, _)
UrlsKept(photo_urls, keep, i) ==
    IF i > Len(photo_urls) THEN <<>>
    ELSE (IF i \in keep THEN <<photo_urls[i]>> ELSE <<>>)
         \o UrlsKept(photo_urls, keep, i + 1)

\* the image data in content_parts, in order
ImagesOf(content_parts) ==
    LET images == SelectSeq(content_parts, LAMBDA part : part.mime_type /= "text")
    IN [k \in DOMAIN images |-> images[k].data]

\* C22: a failed image download never ends the call: once the loop is over
\* the provider has been called with the images whose download succeeded, in
\* the order of photo_urls, followed by the prompt, also when every download
\* failed.
C22_FailedImagesAreSkipped ==
    /\ (gemini.pc = "raised" /\ gemini.failed /= {}) => gemini.sent /= None
    /\ gemini.pc \in {"await_api", "returned", "raised"} =>
           /\ gemini.sent /= None
           /\ ImagesOf(The(gemini.sent)) =
                  UrlsKept(gemini.photo_urls,
                           DOMAIN gemini.photo_urls \ gemini.failed, 1)
           /\ Len(The(gemini.sent)) = Len(ImagesOf(The(gemini.sent))) + 1
           /\ The(gemini.sent)[Len(The(gemini.sent))].mime_type = "text"

\* the provider was called after the download of every one of three images
\* failed
C22_Witness ==
    /\ gemini.pc = "returned"
    /\ Len(gemini.photo_urls) = 3
    /\ gemini.failed = {1, 2, 3}
    /\ Len(The(gemini.sent)) = 1

\* the provider was called with the first and the third of three images
C22_WitnessMiddleSkipped ==
    /\ gemini.pc = "await_api"
    /\ gemini.failed = {2}
    /\ Len(The(gemini.sent)) = 3

---------------------------------------------------------------------------
(* Health check: check_ai_services_health and the /health endpoint.  The   *)
(* messages of the probe exceptions are sequences of characters, so that   *)
(* str(e)[:50] is computed.                                                *)

HealthMessageLengths == {0, 49, 50, 51}

HealthMessages == {[i \in 1..n |-> "x"] : n \in HealthMessageLengths}

ProbeErrors ==
    {Exc(cls, None, 0, m) :
        cls \in {"AuthenticationError", "ConnectionError"},
        m \in HealthMessages}

\* what a probe (client.models.list, genai.list_models) can do
ProbeOutcomes == {None} \cup {Some(e) : e \in ProbeErrors}

HealthRequest(anthropic_key) ==
    [pc |-> "idle", anthropic_api_key |-> anthropic_key,
     openai_status |-> <<"unknown">>, gemini_status |-> <<"unknown">>,
     openai_exc |-> None, gemini_exc |-> None, response |-> None,
     raised |-> None]

\* f"error: {str(e)[:50]}"
error_status(e) == <<"error: ">> \o Take(str(e), 50)

\* AnthropicService.health_check()["status"]
anthropic_status(anthropic_key) ==
    IF anthropic_key THEN <<"healthy">> ELSE <<"no_api_key">>

\* the HealthResponse of the endpoint
HealthResponse(st) ==
    [status |-> "healthy",
     services |-> [openai |-> st.openai_status = <<"healthy">>,
                   anthropic |->
                       anthropic_status(st.anthropic_api_key) = <<"healthy">>,
                   gemini |-> st.gemini_status = <<"healthy">>,
                   video |-> TRUE],
     models |-> [public_remarks |-> OPENAI_MODEL, features |-> OPENAI_MODEL,
                 reso_data |-> OPENAI_MODEL, fallback |-> GEMINI_MODEL]]

\* variant: the exception of the Gemini probe is not caught
health_check_gemini_uncaught(st, gemini_key, probe) ==
    IF gemini_key /\ probe /= None
    THEN [st EXCEPT !.pc = "raised", !.gemini_exc = probe, !.raised = probe]
    ELSE LET checked ==
                 IF gemini_key
                 THEN [st EXCEPT !.gemini_status = <<"healthy">>]
                 ELSE [st EXCEPT !.gemini_status = <<"no_api_key">>]
         IN [checked EXCEPT !.pc = "responded",
                            !.response = Some(HealthResponse(checked))]

\* check_ai_services_health from "Check Gemini" on, and the rest of the
\* endpoint; probe is what genai.list_models does
health_check_gemini(st, gemini_key, probe) ==
    LET checked ==
            IF gemini_key
            THEN IF probe = None
                 THEN [st EXCEPT !.gemini_status = <<"healthy">>]
                 ELSE [st EXCEPT !.gemini_status = error_status(The(probe)),
                                 !.gemini_exc = probe]
            ELSE [st EXCEPT !.gemini_status = <<"no_api_key">>]
    IN [checked EXCEPT !.pc = "responded",
                       !.response = Some(HealthResponse(checked))]

\* check_ai_services_health from the outcome of client.models.list on
health_after_openai_probe(st, probe, gemini_key, gemini_probe) ==
    health_check_gemini(
        IF probe = None
        THEN [st EXCEPT !.openai_status = <<"healthy">>]
        ELSE [st EXCEPT !.openai_status = error_status(The(probe)),
                        !.openai_exc = probe],
        gemini_key, gemini_probe)

\* the endpoint from its entry to the first await, or to its end
health_check_start(st, openai_key, gemini_key, gemini_probe) ==
    IF openai_key THEN [st EXCEPT !.pc = "await_openai_probe"]
    ELSE health_check_gemini([st EXCEPT !.openai_status = <<"no_api_key">>],
                             gemini_key, gemini_probe)

InitHealth ==
    /\ sanitize = None
    /\ categorize = None
    /\ video = None
    /\ cost_tracker = None
    /\ event_loop = None
    /\ task_call = None
    /\ gemini_service = None
    /\ walkthru = None
    /\ BaseIdle
    /\ openai_api_key \in BOOLEAN
    /\ gemini_api_key \in BOOLEAN
    /\ clean = None
    /\ gemini = None
    /\ health \in {HealthRequest(k) : k \in BOOLEAN}

\* GET /health
HealthCheck ==
    /\ health.pc = "idle"
    /\ \E gemini_probe \in ProbeOutcomes :
           health' = health_check_start(health, openai_api_key,
                                        gemini_api_key, gemini_probe)
    /\ UNCHANGED <<base_vars, clean, gemini, walkthru, gemini_service, task_call, event_loop, cost_tracker, video, categorize, sanitize>>

\* await client.models.list() completes
OpenAIProbeCompletes ==
    /\ health.pc = "await_openai_probe"
    /\ \E probe \in ProbeOutcomes, gemini_probe \in ProbeOutcomes :
           health' = health_after_openai_probe(health, probe, gemini_api_key,
                                               gemini_probe)
    /\ UNCHANGED <<base_vars, clean, gemini, walkthru, gemini_service, task_call, event_loop, cost_tracker, video, categorize, sanitize>>

NextHealth == HealthCheck \/ OpenAIProbeCompletes

SpecHealth == InitHealth /\ [][NextHealth]_vars

\* s.startswith(prefix)
StartsWith(s, prefix) ==
    Len(s) >= Len(prefix) /\ SubSeq(s, 1, Len(prefix)) = prefix

\* C23: the health check never raises; when it has answered, a provider
\* without key has the status "no_api_key", a provider whose probe failed
\* has a status "error: ..." with at most 50 characters of the message, and
\* both are reported as unavailable.
C23_HealthNeverRaises ==
    /\ health.pc /= "raised"
    /\ health.raised = None
    /\ health.pc = "responded" =>
          /\ ~openai_api_key =>
                 /\ health.openai_status = <<"no_api_key">>
                 /\ ~The(health.response).services.openai
          /\ ~gemini_api_key =>
                 /\ health.gemini_status = <<"no_api_key">>
                 /\ ~The(health.response).services.gemini
          /\ health.openai_exc /= None =>
                 /\ health.openai_status =
                        <<"error: ">> \o Take(The(health.openai_exc).msg, 50)
                 /\ Len(health.openai_status) <= 51
                 /\ ~The(health.response).services.openai
          /\ health.gemini_exc /= None =>
                 /\ health.gemini_status =
                        <<"error: ">> \o Take(The(health.gemini_exc).msg, 50)
                 /\ Len(health.gemini_status) <= 51
                 /\ ~The(health.response).services.gemini
          /\ (gemini_api_key /\ health.gemini_exc = None) =>
                 The(health.response).services.gemini
          /\ (openai_api_key /\ health.openai_exc = None) =>
                 The(health.response).services.openai

\* the health check answered with OpenAI unconfigured and a failed Gemini
\* probe whose message was cut
C23_Witness ==
    /\ health.pc = "responded"
    /\ ~openai_api_key
    /\ health.gemini_exc /= None
    /\ Len(The(health.gemini_exc).msg) = 51
    /\ Len(health.gemini_status) = 51

---------------------------------------------------------------------------
(* AnthropicService.generate_walkthru_script (services/anthropic_service)  *)
(* under its tenacity retry policy.  The variable walkthru is the state of *)
(* one invocation: the attempt number, property_details (its features list *)
(* is the object the attempts share), the calls made and the outcome.      *)

\* stop=stop_after_attempt(3)
stop_after_attempt == 3

\* the methods class OpenAIService defines
OpenAIServiceMethods ==
    {"__init__", "_calculate_cost", "_prepare_images_for_vision",
     "_parse_extracted_features", "analyze_photos", "generate_public_remarks",
     "health_check"}

\* hasattr(openai_service, name)
openai_service_has(name) == name \in OpenAIServiceMethods

WalkthruCall(client, features, bedrooms, bathrooms) ==
    [pc |-> "idle", attempt |-> 0, client |-> client,
     features |-> features, original_features |-> features,
     bedrooms |-> bedrooms, bathrooms |-> bathrooms,
     prompt_features |-> <<>>, claude_excs |-> <<>>,
     fallback_lookups |-> 0, fallback_calls |-> 0,
     response |-> None, raised |-> None]

AnthropicServiceError(msg) == Exc("AnthropicServiceError", None, 0, msg)

\* variant: the retry policy has no stop condition
walkthru_failed_retry_forever(st, e) ==
    IF isinstance(e, {"AnthropicServiceError", "ConnectionError"})
    THEN [st EXCEPT !.pc = "waiting"]
    ELSE [st EXCEPT !.pc = "raised", !.raised = Some(e)]

\* what tenacity does with an exception raised by the attempt
walkthru_failed(st, e) ==
    IF isinstance(e, {"AnthropicServiceError", "ConnectionError"})
    THEN IF st.attempt < stop_after_attempt
         THEN [st EXCEPT !.pc = "waiting"]
         ELSE [st EXCEPT !.pc = "raised",
                         !.raised = Some(Exc("tenacity.RetryError", None, 0,
                                             str(e)))]
    ELSE [st EXCEPT !.pc = "raised", !.raised = Some(e)]

\* the features the attempt appends to the list
appended_features(st) ==
    (IF st.bedrooms /= 0 THEN <<"bedrooms">> ELSE <<>>)
    \o (IF st.bathrooms /= 0 THEN <<"bathrooms">> ELSE <<>>)

\* one attempt from its entry to the Claude API call
walkthru_attempt(st) ==
    LET n == [st EXCEPT !.attempt = @ + 1]
    IN IF ~n.client
       THEN walkthru_failed(n, AnthropicServiceError(
                <<"Anthropic client not initialized - check API key">>))
       ELSE LET aliased == n.features /= None /\ The(n.features) /= <<>>
                features == (IF aliased THEN The(n.features) ELSE <<>>)
                            \o appended_features(n)
            IN [n EXCEPT !.pc = "await_claude",
                         !.features = IF aliased THEN Some(features) ELSE @,
                         !.prompt_features = Append(@, features)]

\* the fallback of the except clauses
walkthru_fallback(st, prefix, e) ==
    LET looked == [st EXCEPT !.fallback_lookups = @ + 1]
    IN IF openai_service_has("generate_walkthru_script")
       THEN [looked EXCEPT !.pc = "await_openai",
                           !.fallback_calls = @ + 1]
       ELSE walkthru_failed(looked, AnthropicServiceError(
                prefix \o str(e) \o <<". Fallback failed: ",
                "'OpenAIService' object has no attribute 'generate_walkthru_script'">>))

WalkthruScriptResponse(script, provider) ==
    [success |-> TRUE, script |-> script, word_count |-> word_count(script),
     provider |-> provider]

\* what client.messages.create can do for the walk-thru script
ClaudeOutcomes ==
    {[kind |-> "return", text |-> Some(t), exc |-> None] :
        t \in {<<"Welcome", " ", "home">>, <<" ", "Welcome", "\n">>}}
    \cup {[kind |-> "raise", text |-> None, exc |-> Some(e)] :
             e \in AnthropicErrors
                   \cup {Exc("ConnectionError", None, 0, <<"reset">>)}}

\* the attempt from the outcome of the Claude API call on
walkthru_after_claude(st, out) ==
    IF out.kind = "return"
    THEN [st EXCEPT !.pc = "returned",
                    !.response = Some(WalkthruScriptResponse(
                                     Strip(The(out.text)), "anthropic"))]
    ELSE LET e == The(out.exc)
             seen == [st EXCEPT !.claude_excs = Append(@, e)]
         IN IF isinstance(e, {"anthropic.APIError"})
            THEN walkthru_fallback(seen, <<"Claude API error: ">>, e)
            ELSE walkthru_fallback(seen,
                     <<"Failed to generate walk-thru script: ">>, e)

InitWalkthru ==
    /\ sanitize = None
    /\ categorize = None
    /\ video = None
    /\ cost_tracker = None
    /\ event_loop = None
    /\ task_call = None
    /\ gemini_service = None
    /\ BaseIdle
    /\ KeysConfigured
    /\ clean = None
    /\ gemini = None
    /\ health = None
    /\ walkthru \in {WalkthruCall(client, features, bedrooms, bathrooms) :
                        client \in BOOLEAN,
                        features \in {None, Some(<<>>), Some(<<"pool">>)},
                        bedrooms \in {0, 3}, bathrooms \in {0, 2}}

\* await service.generate_walkthru_script(property_details)
WalkthruCalled ==
    /\ walkthru.pc = "idle"
    /\ walkthru' = walkthru_attempt(walkthru)
    /\ UNCHANGED <<base_vars, clean, gemini, health, gemini_service, task_call, event_loop, cost_tracker, video, categorize, sanitize>>

\* await self.client.messages.create(...) completes
ClaudeCompletes ==
    /\ walkthru.pc = "await_claude"
    /\ \E out \in ClaudeOutcomes : walkthru' = walkthru_after_claude(walkthru, out)
    /\ UNCHANGED <<base_vars, clean, gemini, health, gemini_service, task_call, event_loop, cost_tracker, video, categorize, sanitize>>

\* the wait of the retry policy is over: the next attempt starts
WalkthruRetried ==
    /\ walkthru.pc = "waiting"
    /\ walkthru' = walkthru_attempt(walkthru)
    /\ UNCHANGED <<base_vars, clean, gemini, health, gemini_service, task_call, event_loop, cost_tracker, video, categorize, sanitize>>

NextWalkthru == WalkthruCalled \/ ClaudeCompletes \/ WalkthruRetried

SpecWalkthru == InitWalkthru /\ [][NextWalkthru]_vars

\* C24: when the Claude API call has raised, the OpenAI service's
\* generate_walkthru_script has been invoked once for it and its response
\* is what the caller gets.
C24_FallsBackToOpenAI ==
    (walkthru.claude_excs /= <<>> /\ walkthru.pc /= "await_claude")
    => /\ walkthru.fallback_calls = 1
       /\ walkthru.pc \in {"await_openai", "returned"}
       /\ walkthru.pc = "returned" =>
              The(walkthru.response).provider = "openai"

---------------------------------------------------------------------------
(* GeminiService.generate_features (services/gemini_service) on the        *)
(* singleton returned by get_gemini_service, under its retry policy.  The  *)
(* variable gemini_service holds the fields of the one GeminiService       *)
(* object and, per request, the state of its generate_features call.       *)

\* the requests served concurrently by the one event loop
Requests == {"r1", "r2"}

\* stop=stop_after_attempt(4)
features_stop_after_attempt == 4

\* usage.total_tokens of one response
FeaturesTokens == 10

GeminiServiceError(msg) == Exc("GeminiServiceError", None, 0, msg)
ResourceExhausted == Exc("google.api_core.exceptions.ResourceExhausted", None, 429, <<"quota">>)

FeaturesCall ==
    [pc |-> "idle", attempt |-> 0, provider_calls |-> 0, exhausted |-> 0,
     failed |-> 0, response |-> None, raised |-> None]

\* GeminiService.__init__ / get_gemini_service
GeminiService(client) ==
    [client |-> client, thought_context |-> None, total_tokens_used |-> 0,
     calls |-> [r \in Requests |-> FeaturesCall]]

\* _init_thought_signature: the signature replaces the context; the entry
\* records the request whose call wrote it
init_thought_signature(svc, r) ==
    [svc EXCEPT !.thought_context = Some(<<[kind |-> "THOUGHT_INIT", by |-> r]>>)]

\* _update_thought_signature
update_thought_signature(svc, r) ==
    IF svc.thought_context /= None /\ The(svc.thought_context) /= <<>>
    THEN [svc EXCEPT !.thought_context =
              Some(Append(The(@), [kind |-> "STEP", by |-> r]))]
    ELSE svc

\* what tenacity does with an exception raised by the attempt of request r
features_failed_no_retry(svc, r, e) ==
    [svc EXCEPT !.calls[r].pc = "raised", !.calls[r].raised = Some(e)]
features_failed(svc, r, e) ==
    IF isinstance(e, {"GeminiServiceError", "ConnectionError",
                      "google.api_core.exceptions.ResourceExhausted"})
    THEN IF svc.calls[r].attempt < features_stop_after_attempt
         THEN [svc EXCEPT !.calls[r].pc = "waiting"]
         ELSE [svc EXCEPT !.calls[r].pc = "raised",
                          !.calls[r].raised =
                              Some(Exc("tenacity.RetryError", None, 0, str(e)))]
    ELSE [svc EXCEPT !.calls[r].pc = "raised", !.calls[r].raised = Some(e)]

\* one attempt of request r from its entry to the Gemini API call
features_attempt(svc, r) ==
    LET n == [svc EXCEPT !.calls[r].attempt = @ + 1]
    IN IF ~n.client
       THEN features_failed(n, r, GeminiServiceError(
                <<"Gemini client not initialized - check API key">>))
       ELSE LET t == init_thought_signature(n, r)
            IN [t EXCEPT !.calls[r].pc = "await_gemini",
                         !.calls[r].provider_calls = @ + 1]

\* what client.generate_content_async can do; a returned text holds a JSON
\* object with all_features, or none
FeaturesOutcomes ==
    {[kind |-> "return", all_features |-> f, exc |-> None] :
        f \in {None, Some(<<"pool", "deck">>)}}
    \cup {[kind |-> "raise", all_features |-> None, exc |-> Some(e)] :
             e \in {ResourceExhausted,
                    Exc("ConnectionError", None, 0, <<"reset">>),
                    Exc("ValueError", None, 0, <<"blocked">>)}}

\* _parse_features_response(...).get("all_features", [])
parsed_features(out) ==
    IF out.all_features = None THEN <<>> ELSE The(out.all_features)

GeminiFeaturesResponse(features_list) ==
    [success |-> TRUE, features_list |-> features_list,
     total_features |-> Len(features_list), provider |-> "google"]

\* the attempt of request r from the outcome of the Gemini API call on
features_after_gemini(svc, r, out) ==
    IF out.kind = "return"
    THEN LET features_list == Take(parsed_features(out), max_features)
             u == update_thought_signature(svc, r)
         IN [u EXCEPT !.total_tokens_used = @ + FeaturesTokens,
                      !.calls[r].pc = "returned",
                      !.calls[r].response =
                          Some(GeminiFeaturesResponse(features_list))]
    ELSE LET e == The(out.exc)
         IN IF isinstance(e, {"google.api_core.exceptions.ResourceExhausted"})
            THEN features_failed([svc EXCEPT !.calls[r].exhausted = @ + 1], r, e)
            ELSE features_failed([svc EXCEPT !.calls[r].failed = @ + 1], r,
                     GeminiServiceError(
                         <<"Failed to generate features: ">> \o str(e)))

InitGeminiService ==
    /\ sanitize = None
    /\ categorize = None
    /\ video = None
    /\ cost_tracker = None
    /\ event_loop = None
    /\ task_call = None
    /\ BaseIdle
    /\ KeysConfigured
    /\ clean = None
    /\ gemini = None
    /\ health = None
    /\ walkthru = None
    /\ gemini_service \in {GeminiService(client) : client \in BOOLEAN}

\* await get_gemini_service().generate_features(property_details), request r
GenerateFeaturesCalled(r) ==
    /\ gemini_service.calls[r].pc = "idle"
    /\ gemini_service' = features_attempt(gemini_service, r)
    /\ UNCHANGED <<base_vars, clean, gemini, health, walkthru, task_call, event_loop, cost_tracker, video, categorize, sanitize>>

\* await self.client.generate_content_async(...) of request r completes
GeminiFeaturesCompletes(r) ==
    /\ gemini_service.calls[r].pc = "await_gemini"
    /\ \E out \in FeaturesOutcomes :
           gemini_service' = features_after_gemini(gemini_service, r, out)
    /\ UNCHANGED <<base_vars, clean, gemini, health, walkthru, task_call, event_loop, cost_tracker, video, categorize, sanitize>>

\* the wait of the retry policy is over: the next attempt of request r starts
GenerateFeaturesRetried(r) ==
    /\ gemini_service.calls[r].pc = "waiting"
    /\ gemini_service' = features_attempt(gemini_service, r)
    /\ UNCHANGED <<base_vars, clean, gemini, health, walkthru, task_call, event_loop, cost_tracker, video, categorize, sanitize>>

FeaturesStep(r) ==
    GenerateFeaturesCalled(r) \/ GeminiFeaturesCompletes(r) \/ GenerateFeaturesRetried(r)

NextGeminiService == \E r \in Requests : FeaturesStep(r)

SpecGeminiService == InitGeminiService /\ [][NextGeminiService]_vars

\* the event loop resumes every call whose await or wait is over
FairSpecGeminiService ==
    SpecGeminiService /\ \A r \in Requests : WF_vars(FeaturesStep(r))

FeaturesDone(r) == gemini_service.calls[r].pc \in {"returned", "raised"}

FeaturesRetryCounts(r) ==
    LET c == gemini_service.calls[r]
    IN /\ c.provider_calls <= 4
       /\ (c.pc = "returned" /\ c.failed = 0) =>
              /\ c.exhausted < 4
              /\ c.provider_calls = c.exhausted + 1
              /\ The(c.response).success = TRUE
       /\ (c.exhausted = 4 /\ c.pc /= "await_gemini") =>
              /\ c.pc = "raised"
              /\ c.provider_calls = 4
       /\ (c.pc = "raised" /\ gemini_service.client) => c.provider_calls = 4

\* C25: generate_features that fails k < 4 times with ResourceExhausted and
\* then succeeds returns a successful response after exactly k+1 provider
\* calls; an invocation never makes more than 4 provider calls, gives up with
\* an error after the 4th failure, and every invocation ends.
C25_RetriesOnResourceExhausted ==
    /\ [](\A r \in Requests : FeaturesRetryCounts(r))
    /\ \A r \in Requests :
           (gemini_service.calls[r].pc /= "idle") ~> FeaturesDone(r)

C25_Witness ==
    \E r \in Requests :
        LET c == gemini_service.calls[r]
        IN c.pc = "returned" /\ c.exhausted = 3 /\ c.failed = 0
           /\ c.provider_calls = 4

C25_WitnessGivesUp ==
    \E r \in Requests :
        LET c == gemini_service.calls[r]
        IN c.pc = "raised" /\ c.exhausted = 4
           /\ The(c.raised).cls = "tenacity.RetryError"

---------------------------------------------------------------------------
(* The violations list of check_fair_housing_compliance.                   *)

CategoryIndex(category) ==
    CHOOSE i \in DOMAIN Categories : Categories[i] = category

\* some pattern of the category matches somewhere in the lower-cased text
SomePatternMatches(category, text) ==
    \E k \in DOMAIN Patterns(category) : \E i \in 1..Len(text) :
        MatchEnd(Patterns(category)[k], Lower(text), i) /= 0

NoDuplicates(xs) == \A i, j \in DOMAIN xs : xs[i] = xs[j] => i = j

\* C26: the checker emits at most one violation per taxonomy category, in
\* the taxonomy's category order; every emitted violation has a non-empty
\* matches list without duplicates; a category is emitted exactly when one
\* of its patterns matched the text.
C26_OneViolationPerMatchedCategory ==
    (check_in /= None /\ check_out /= None) =>
        LET vs == The(check_out).violations
            text == The(check_in)
        IN /\ \A i, j \in DOMAIN vs :
                  i < j => CategoryIndex(vs[i].category)
                               < CategoryIndex(vs[j].category)
           /\ \A i \in DOMAIN vs :
                  vs[i].matches /= <<>> /\ NoDuplicates(vs[i].matches)
           /\ \A c \in DOMAIN Categories :
                  (\E i \in DOMAIN vs : vs[i].category = Categories[c])
                      <=> SomePatternMatches(Categories[c], text)

\* a text that violates two categories
C26_WitnessTwoCategories ==
    /\ check_in /= None
    /\ check_out /= None
    /\ Len(The(check_out).violations) = 2

\* a text that repeats a prohibited phrase
C26_Witness ==
    /\ check_in /= None
    /\ check_out /= None
    /\ \E i \in DOMAIN The(check_out).violations :
           LET v == The(check_out).violations[i]
           IN Len(category_matches(v.category, Lower(The(check_in))))
                  > Len(v.matches)

---------------------------------------------------------------------------
(* The arguments generate_content_with_fallback hands to the two provider  *)
(* wrappers.  The variable task_call holds the parameters the caller gave, *)
(* the contents of the photo_urls list object, and the keyword arguments   *)
(* each wrapper was called with.                                           *)

\* temperatures are in tenths
TaskParameters ==
    [system_prompt : {<<"You", " ", "write", " ", "listings">>, <<>>},
     user_prompt : {<<"Describe", " ", "the", " ", "home">>},
     photo_urls : PhotoLists,
     temperature : {3, 7},
     max_output_tokens : {1200, 2000}]

TaskCall(params) ==
    [params |-> params, photo_urls |-> params.photo_urls,
     openai_kwargs |-> None, gemini_kwargs |-> None,
     openai_input |-> None]

\* the keyword arguments of the _generate_with_openai call
openai_arguments(t) ==
    [system_prompt |-> t.params.system_prompt,
     user_prompt |-> t.params.user_prompt,
     photo_urls |-> t.photo_urls,
     temperature |-> t.params.temperature,
     max_output_tokens |-> t.params.max_output_tokens]

\* variant: the fallback is called with the default generation settings
gemini_arguments_defaults(t) ==
    [system_prompt |-> t.params.system_prompt,
     user_prompt |-> t.params.user_prompt,
     photo_urls |-> t.photo_urls,
     temperature |-> 3,
     max_output_tokens |-> 1200]

\* the keyword arguments of the _generate_with_gemini call
gemini_arguments(t) ==
    [system_prompt |-> t.params.system_prompt,
     user_prompt |-> t.params.user_prompt,
     photo_urls |-> t.photo_urls,
     temperature |-> t.params.temperature,
     max_output_tokens |-> t.params.max_output_tokens]

\* content_parts of _generate_with_openai: the prompt, then one part per url
openai_content_parts(kwargs) ==
    <<[type |-> "input_text", text |-> kwargs.user_prompt]>>
    \o [i \in 1..Len(kwargs.photo_urls) |->
           [type |-> "input_image", image_url |-> kwargs.photo_urls[i]]]

Called(evts, name) == \E i \in DOMAIN evts : evts[i] = name

\* the wrappers the step from frame st to frame st2 called, with what
task_after(t, st, st2) ==
    LET t1 == IF Called(st2.events, "openai_call") /\ ~Called(st.events, "openai_call")
              THEN [t EXCEPT !.openai_kwargs = Some(openai_arguments(t))]
              ELSE t
        t2 == IF Called(st2.events, "openai_api_start") /\ ~Called(st.events, "openai_api_start")
              THEN [t1 EXCEPT !.openai_input =
                        Some(openai_content_parts(The(t1.openai_kwargs)))]
              ELSE t1
    IN IF Called(st2.events, "gemini_call") /\ ~Called(st.events, "gemini_call")
       THEN [t2 EXCEPT !.gemini_kwargs = Some(gemini_arguments(t2))]
       ELSE t2

ApplyTask(st) ==
    /\ ApplyFrame(st)
    /\ task_call' = task_after(task_call, Frame, st)
    /\ UNCHANGED <<openai_api_key, gemini_api_key, classify_in, classify_out,
                   ext_vars, clean, gemini, health, walkthru, gemini_service, event_loop, cost_tracker, video, categorize, sanitize>>

InitTask ==
    /\ sanitize = None
    /\ categorize = None
    /\ video = None
    /\ cost_tracker = None
    /\ event_loop = None
    /\ BaseIdle
    /\ openai_api_key \in BOOLEAN
    /\ gemini_api_key \in BOOLEAN
    /\ clean = None
    /\ gemini = None
    /\ health = None
    /\ walkthru = None
    /\ gemini_service = None
    /\ task_call \in {TaskCall(params) : params \in TaskParameters}

\* a caller awaits generate_content_with_fallback(system_prompt, ...)
TaskGenerate ==
    /\ pc = "idle"
    /\ ApplyTask(start_primary(Frame, gemini_api_key, openai_api_key))

\* client.responses.create completes
TaskOpenAIResponds ==
    /\ pc = "await_openai"
    /\ \E api \in OpenAIApiOutcomes :
        ApplyTask(after_primary(
            [Frame EXCEPT !.events = @ \o <<"openai_api_end">>],
            _generate_with_openai(api), gemini_api_key, openai_api_key))

\* model.generate_content_async completes
TaskGeminiResponds ==
    /\ pc = "await_gemini"
    /\ \E api \in GeminiApiOutcomes :
        ApplyTask(after_secondary(
            [Frame EXCEPT !.events = @ \o <<"gemini_api_end">>],
            _generate_with_gemini(api)))

NextTask == TaskGenerate \/ TaskOpenAIResponds \/ TaskGeminiResponds

SpecTask == InitTask /\ [][NextTask]_vars

\* C27: the secondary provider is called with exactly the task parameters
\* given to the primary (system prompt, user prompt, image list, temperature,
\* max_output_tokens), and the failed primary attempt changed none of them.
C27_SecondaryGetsSameParameters ==
    task_call.gemini_kwargs /= None =>
        /\ The(task_call.gemini_kwargs) = task_call.params
        /\ task_call.openai_kwargs = task_call.gemini_kwargs
        /\ task_call.photo_urls = task_call.params.photo_urls

\* the primary was sent a request with photos, failed, and the secondary was
\* called with settings other than the defaults
C27_Witness ==
    /\ task_call.gemini_kwargs /= None
    /\ task_call.openai_input /= None
    /\ primary_exc /= None
    /\ task_call.params.photo_urls /= <<>>
    /\ task_call.params.temperature = 7
    /\ task_call.params.max_output_tokens = 2000

---------------------------------------------------------------------------
(* Isolation of concurrent requests on the singleton GeminiService.        *)

\* C28: state written while serving one request is not read or written
\* while serving another: the thought context of the singleton GeminiService
\* holds entries of one request only, so the context a request updates is
\* the one it initialised.
C28_NoCrossRequestState ==
    gemini_service.thought_context /= None =>
        LET ctx == The(gemini_service.thought_context)
        IN \A i, j \in DOMAIN ctx : ctx[i].by = ctx[j].by

---------------------------------------------------------------------------
(* Provider calls on the one event loop.  A handler runs on the loop's     *)
(* thread until it awaits; a call made without await keeps the thread      *)
(* until it returns.  The variable event_loop holds the request whose      *)
(* handler occupies the thread, if any, and each request's handler and     *)
(* position.                                                               *)

\* the coroutines that call a provider
ProviderCallers ==
    {"generate_content_with_fallback", "refine_content",
     "extract_with_gemini", "extract_with_gpt", "extract_with_claude"}

\* is the provider call of the handler awaited
\*   _generate_with_openai:  await client.responses.create(...)   AsyncOpenAI
\*   refine_content:         client.messages.create(...)          anthropic.Anthropic
\*   extract_with_gemini:    model.generate_content(...)
\*   extract_with_gpt:       client.chat.completions.create(...)  openai.OpenAI
\*   extract_with_claude:    client.messages.create(...)          anthropic.Anthropic
provider_call_awaited(handler) ==
    handler = "generate_content_with_fallback"

EventLoop(handlers) ==
    [running |-> None,
     reqs |-> [r \in Requests |-> [handler |-> handlers[r], pc |-> "ready"]]]

\* the loop runs the handler of request r up to its provider call
run_to_provider_call(lp, r) ==
    IF provider_call_awaited(lp.reqs[r].handler)
    THEN [lp EXCEPT !.reqs[r].pc = "await_provider", !.running = None]
    ELSE [lp EXCEPT !.reqs[r].pc = "in_provider_call", !.running = Some(r)]

\* the provider's response for request r arrives
provider_responded(lp, r) ==
    IF lp.reqs[r].pc = "await_provider"
    THEN [lp EXCEPT !.reqs[r].pc = "resumable"]
    ELSE [lp EXCEPT !.reqs[r].pc = "done", !.running = None]

InitEventLoop ==
    /\ sanitize = None
    /\ categorize = None
    /\ video = None
    /\ cost_tracker = None
    /\ BaseIdle
    /\ KeysConfigured
    /\ clean = None
    /\ gemini = None
    /\ health = None
    /\ walkthru = None
    /\ gemini_service = None
    /\ task_call = None
    /\ event_loop \in {EventLoop(h) : h \in [Requests -> ProviderCallers]}

\* the loop starts the handler of request r
HandlerStarts(r) ==
    /\ event_loop.running = None
    /\ event_loop.reqs[r].pc = "ready"
    /\ event_loop' = run_to_provider_call(event_loop, r)
    /\ UNCHANGED <<base_vars, clean, gemini, health, walkthru, gemini_service, task_call, cost_tracker, video, categorize, sanitize>>

\* the provider answers the call of request r
ProviderResponds(r) ==
    /\ event_loop.reqs[r].pc \in {"await_provider", "in_provider_call"}
    /\ event_loop' = provider_responded(event_loop, r)
    /\ UNCHANGED <<base_vars, clean, gemini, health, walkthru, gemini_service, task_call, cost_tracker, video, categorize, sanitize>>

\* the loop resumes the handler of request r after its await, to its end
HandlerResumes(r) ==
    /\ event_loop.running = None
    /\ event_loop.reqs[r].pc = "resumable"
    /\ event_loop' = [event_loop EXCEPT !.reqs[r].pc = "done"]
    /\ UNCHANGED <<base_vars, clean, gemini, health, walkthru, gemini_service, task_call, cost_tracker, video, categorize, sanitize>>

NextEventLoop ==
    \E r \in Requests : HandlerStarts(r) \/ ProviderResponds(r) \/ HandlerResumes(r)

SpecEventLoop == InitEventLoop /\ [][NextEventLoop]_vars

WaitingForProvider(r) ==
    event_loop.reqs[r].pc \in {"await_provider", "in_provider_call"}

PendingRequest(r) == event_loop.reqs[r].pc \in {"ready", "resumable"}

\* C29: every provider call is a suspension point: while a request waits for
\* a provider response, every other pending request can take its next step.
C29_ProviderCallsSuspend ==
    \A r, other \in Requests :
        (r /= other /\ WaitingForProvider(r) /\ PendingRequest(other))
            => ENABLED (HandlerStarts(other) \/ HandlerResumes(other))

---------------------------------------------------------------------------
(* CostTracker.record_usage (utils/cost_tracker) called by concurrent      *)
(* requests.  Costs are in millionths of a dollar (calculate_cost rounds   *)
(* to 6 decimals), token counts are multiples of 1000.  The variable       *)
(* cost_tracker holds the tracker's fields, the clock, the number of       *)
(* record_usage calls made, and each request's position.                   *)

\* datetime.utcnow() at the instants of the clock
Times == <<[day |-> 1, hour |-> 23], [day |-> 2, hour |-> 0]>>
Days == {Times[i].day : i \in DOMAIN Times}
HourKeys == {<<Times[i].day, Times[i].hour>> : i \in DOMAIN Times}
UserIds == {"u1"}

\* MODEL_COSTS, per 1K tokens
MODEL_COSTS ==
    [m \in {"gpt-4.1", "claude-sonnet-4-20250514", "gemini-3-pro-latest"} |->
        CASE m = "gpt-4.1" -> [input |-> 2500, output |-> 10000]
          [] m = "claude-sonnet-4-20250514" -> [input |-> 3000, output |-> 15000]
          [] m = "gemini-3-pro-latest" -> [input |-> 2000, output |-> 12000]]

\* COST_CONFIG["alert_thresholds"]
alert_thresholds ==
    [per_request |-> 1000000, per_hour |-> 10000000, per_day |-> 50000000]

calculate_cost(model, input_tokens, output_tokens) ==
    IF model \notin DOMAIN MODEL_COSTS THEN 0
    ELSE (input_tokens \div 1000) * MODEL_COSTS[model].input
         + (output_tokens \div 1000) * MODEL_COSTS[model].output

\* CostTracker.__init__ with the requests about to be served
CostTracker ==
    [records |-> <<>>,
     daily_costs |-> [d \in Days |-> 0],
     hourly_costs |-> [h \in HourKeys |-> 0],
     user_costs |-> [u \in UserIds |-> 0],
     alerts |-> <<>>,
     now |-> 1, calls |-> 0,
     reqs |-> [r \in Requests |-> "ready"]]

UsageRecord(now, model, input_tokens, output_tokens, cost, request_id, user_id) ==
    [timestamp |-> now, model |-> model, input_tokens |-> input_tokens,
     output_tokens |-> output_tokens, cost_usd |-> cost,
     request_id |-> request_id, user_id |-> user_id]

HasAlert(alerts, type, key) ==
    \E i \in DOMAIN alerts : alerts[i].type = type /\ alerts[i].key = key

\* _check_thresholds(record)
check_thresholds(ct, record) ==
    LET hour_key == <<record.timestamp.day, record.timestamp.hour>>
        today == record.timestamp.day
        a1 == IF record.cost_usd > alert_thresholds.per_request
              THEN Append(ct.alerts, [type |-> "per_request",
                                      key |-> record.request_id])
              ELSE ct.alerts
        a2 == IF ct.hourly_costs[hour_key] > alert_thresholds.per_hour
                 /\ ~HasAlert(a1, "per_hour", hour_key)
              THEN Append(a1, [type |-> "per_hour", key |-> hour_key])
              ELSE a1
        a3 == IF ct.daily_costs[today] > alert_thresholds.per_day
                 /\ ~HasAlert(a2, "per_day", today)
              THEN Append(a2, [type |-> "per_day", key |-> today])
              ELSE a2
    IN [ct EXCEPT !.alerts = a3]

\* variant: the aggregations are set to the cost of the latest record
tracker_record_usage_overwrite(ct, model, input_tokens, output_tokens, request_id, user_id) ==
    LET cost == calculate_cost(model, input_tokens, output_tokens)
        now == Times[ct.now]
        record == UsageRecord(now, model, input_tokens, output_tokens, cost,
                              request_id, user_id)
    IN check_thresholds(
           [ct EXCEPT !.records = Append(@, record),
                      !.daily_costs[now.day] = cost,
                      !.hourly_costs[<<now.day, now.hour>>] = cost,
                      !.calls = @ + 1],
           record)

\* CostTracker.record_usage(...)
tracker_record_usage(ct, model, input_tokens, output_tokens, request_id, user_id) ==
    LET cost == calculate_cost(model, input_tokens, output_tokens)
        now == Times[ct.now]
        record == UsageRecord(now, model, input_tokens, output_tokens, cost,
                              request_id, user_id)
        appended == [ct EXCEPT !.records = Append(@, record),
                               !.daily_costs[now.day] = @ + cost,
                               !.hourly_costs[<<now.day, now.hour>>] = @ + cost,
                               !.calls = @ + 1]
        by_user == IF user_id /= None
                   THEN [appended EXCEPT !.user_costs[The(user_id)] = @ + cost]
                   ELSE appended
    IN check_thresholds(by_user, record)

InitCostTracker ==
    /\ sanitize = None
    /\ categorize = None
    /\ video = None
    /\ BaseIdle
    /\ KeysConfigured
    /\ clean = None
    /\ gemini = None
    /\ health = None
    /\ walkthru = None
    /\ gemini_service = None
    /\ task_call = None
    /\ event_loop = None
    /\ cost_tracker = CostTracker

\* the handler of request r awaits generate_content_with_fallback(...)
RequestAwaitsGeneration(r) ==
    /\ cost_tracker.reqs[r] = "ready"
    /\ cost_tracker' = [cost_tracker EXCEPT !.reqs[r] = "await_generation"]
    /\ UNCHANGED <<base_vars, clean, gemini, health, walkthru, gemini_service, task_call, event_loop, video, categorize, sanitize>>

\* the generation of request r has returned: the handler runs on to its
\* end and calls get_cost_tracker().record_usage(...) on the way
RequestRecordsUsage(r) ==
    /\ cost_tracker.reqs[r] = "await_generation"
    /\ \E model \in {"gpt-4.1", "gemini-3-pro-latest", "gpt-5.2"},
          output_tokens \in {1000, 200000},
          user_id \in {None} \cup {Some(u) : u \in UserIds} :
           cost_tracker' =
               [tracker_record_usage(cost_tracker, model, 1000, output_tokens,
                                     r, user_id)
                   EXCEPT !.reqs[r] = "done"]
    /\ UNCHANGED <<base_vars, clean, gemini, health, walkthru, gemini_service, task_call, event_loop, video, categorize, sanitize>>

\* time passes
ClockTicks ==
    /\ cost_tracker.now < Len(Times)
    /\ cost_tracker' = [cost_tracker EXCEPT !.now = @ + 1]
    /\ UNCHANGED <<base_vars, clean, gemini, health, walkthru, gemini_service, task_call, event_loop, video, categorize, sanitize>>

NextCostTracker ==
    \/ \E r \in Requests : RequestAwaitsGeneration(r) \/ RequestRecordsUsage(r)
    \/ ClockTicks

SpecCostTracker == InitCostTracker /\ [][NextCostTracker]_vars

\* the sum of cost_usd over the records of the day
RECURSIVE DayCost(_, _)
DayCost(records, day) ==
    IF records = <<>> THEN 0
    ELSE (IF Head(records).timestamp.day = day THEN Head(records).cost_usd ELSE 0)
         + DayCost(Tail(records), day)

IsPrefix(xs, ys) == Len(xs) <= Len(ys) /\ SubSeq(ys, 1, Len(xs)) = xs

TrackerConsistent ==
    /\ Len(cost_tracker.records) = cost_tracker.calls
    /\ \A d \in Days :
           cost_tracker.daily_costs[d] = DayCost(cost_tracker.records, d)

\* C30: under any interleaving of the requests the tracker holds one
\* UsageRecord per record_usage call, earlier records are never changed, and
\* each day's daily_costs total is the sum of cost_usd over that day's
\* records.
C30_NoLostUpdates ==
    /\ []TrackerConsistent
    /\ [][IsPrefix(cost_tracker.records, cost_tracker'.records)]_vars

\* both requests awaited at once and recorded a cost on the same day
C30_Witness ==
    /\ \A r \in Requests : cost_tracker.reqs[r] = "done"
    /\ Len(cost_tracker.records) = 2
    /\ cost_tracker.records[1].timestamp.day = cost_tracker.records[2].timestamp.day
    /\ cost_tracker.records[1].cost_usd > 0
    /\ cost_tracker.records[2].cost_usd > 0
    /\ cost_tracker.alerts /= <<>>

---------------------------------------------------------------------------
(* generate_walkthrough_video (endpoints/video_generation) serving the     *)
(* requests on one file system.  A path is the pair of its directory and   *)
(* its file name.  The variable video holds, per request, its inputs, its  *)
(* position, the paths it has written or read, and its outcome.            *)

\* tempfile.gettempdir()
gettempdir == <<"/tmp">>

\* tempfile.mkdtemp(prefix="video_gen_"): a fresh directory for each call
mkdtemp(r) == <<"/tmp", "video_gen_", r>>

\* f"photo_{i:03d}.jpg"
photo_name(i) == <<"photo_000.jpg", "photo_001.jpg">>[i + 1]

\* os.path.join(directory, name)
path_join(directory, name) == <<directory, name>>

\* re.sub(r'\[[^\]]+\]', '', script), whitespace normalised and stripped
get_clean_script_text(script) ==
    Strip(SelectSeq(script, LAMBDA c : c /= "[INTRO]"))

VideoScripts == {<<"[INTRO]">>, <<"[INTRO]", " ", "Welcome">>}

VideoRequest(photos, include_voiceover, script) ==
    [pc |-> "idle", photos |-> photos, include_voiceover |-> include_voiceover,
     script |-> script, temp_dir |-> None, i |-> 0, photo_paths |-> <<>>,
     voiceover_ok |-> None, audio_build_ok |-> None,
     silent_build_ok |-> None, has_voiceover |-> FALSE, paths |-> {},
     response |-> None, raised |-> None]

\* the except clauses and the finally clause: the request ends raising
video_raise(rq, status_code, detail) ==
    [rq EXCEPT !.pc = "raised",
               !.raised = Some(HTTPException(status_code, detail))]

\* the paths create_video_from_photos_with_audio writes
audio_build_paths(output_path) ==
    {path_join(gettempdir, "concat.txt"),
     path_join(gettempdir, "silent_video.mp4"), output_path}

\* the paths create_silent_video writes
silent_build_paths(output_path) ==
    {path_join(gettempdir, "concat.txt"), output_path}

\* variant: a failed audio-timed build fails the request
create_video_no_silent_fallback(rq, audio_ok, silent_ok) ==
    LET video_path == path_join(The(rq.temp_dir), "walkthrough_video.mp4")
    IN IF rq.has_voiceover
       THEN LET built == [rq EXCEPT !.audio_build_ok = Some(audio_ok),
                                    !.paths = @ \cup audio_build_paths(video_path)]
            IN IF audio_ok THEN [built EXCEPT !.pc = "await_video_upload"]
               ELSE video_raise(built, 500, <<"Video generation failed">>)
       ELSE LET built == [rq EXCEPT !.silent_build_ok = Some(silent_ok),
                                    !.paths = @ \cup silent_build_paths(video_path)]
            IN IF silent_ok THEN [built EXCEPT !.pc = "await_video_upload"]
               ELSE video_raise(built, 500, <<"Video generation failed">>)

\* step 3, create video: the two builds run without suspension; audio_ok and
\* silent_ok are what the ffmpeg runs of each build come to
create_video(rq, audio_ok, silent_ok) ==
    LET video_path == path_join(The(rq.temp_dir), "walkthrough_video.mp4")
        with_audio ==
            IF rq.has_voiceover
            THEN [rq EXCEPT !.audio_build_ok = Some(audio_ok),
                            !.has_voiceover = audio_ok,
                            !.paths = @ \cup audio_build_paths(video_path)]
            ELSE rq
        silent_run == ~rq.has_voiceover \/ ~audio_ok
        built == IF silent_run
                 THEN [with_audio EXCEPT
                          !.silent_build_ok = Some(silent_ok),
                          !.paths = @ \cup silent_build_paths(video_path)]
                 ELSE with_audio
        success == IF silent_run THEN silent_ok ELSE TRUE
    IN IF ~success
       THEN video_raise(built, 500, <<"Video generation failed">>)
       ELSE [built EXCEPT !.pc = "await_video_upload"]

\* step 2, generate voiceover, up to its suspension point
start_voiceover(rq, elevenlabs_api_key, audio_ok, silent_ok) ==
    IF rq.include_voiceover
       /\ elevenlabs_api_key
       /\ get_clean_script_text(rq.script) /= <<>>
    THEN [rq EXCEPT !.pc = "await_voiceover"]
    ELSE create_video([rq EXCEPT !.voiceover_ok =
                           IF rq.include_voiceover THEN Some(FALSE) ELSE None],
                      audio_ok, silent_ok)

\* the ElevenLabs call is over: ok is whether it answered 200
after_voiceover(rq, ok, audio_ok, silent_ok) ==
    LET audio_path == path_join(The(rq.temp_dir), "voiceover.mp3")
        heard == [rq EXCEPT !.voiceover_ok = Some(ok), !.has_voiceover = ok,
                            !.paths = IF ok THEN @ \cup {audio_path} ELSE @]
    IN create_video(heard, audio_ok, silent_ok)

\* step 1: download_photo of photo i is over
after_download(rq, ok, elevenlabs_api_key, audio_ok, silent_ok) ==
    LET photo_path == path_join(The(rq.temp_dir), photo_name(rq.i))
        got == [rq EXCEPT !.i = @ + 1,
                          !.photo_paths = IF ok THEN Append(@, photo_path) ELSE @,
                          !.paths = IF ok THEN @ \cup {photo_path} ELSE @]
    IN IF got.i < rq.photos THEN got
       ELSE IF got.photo_paths = <<>>
            THEN video_raise(got, 400, <<"No photos could be downloaded">>)
            ELSE start_voiceover(got, elevenlabs_api_key, audio_ok, silent_ok)

VideoGenerationResponse(rq) ==
    [success |-> TRUE, has_voiceover |-> rq.has_voiceover,
     photos_used |-> Len(rq.photo_paths)]

\* steps 4 and 5: the uploads to storage
after_upload(rq, ok) ==
    IF ~ok
    THEN video_raise(rq, 500, <<"Failed to upload to storage: ">>)
    ELSE IF rq.pc = "await_video_upload"
         THEN [rq EXCEPT !.pc = "await_script_upload"]
         ELSE [rq EXCEPT !.pc = "returned",
                         !.response = Some(VideoGenerationResponse(rq))]

InitVideo ==
    /\ sanitize = None
    /\ categorize = None
    /\ BaseIdle
    /\ KeysConfigured
    /\ clean = None
    /\ gemini = None
    /\ health = None
    /\ walkthru = None
    /\ gemini_service = None
    /\ task_call = None
    /\ event_loop = None
    /\ cost_tracker = None
    /\ \E key \in BOOLEAN :
           video \in {[elevenlabs_api_key |-> key, reqs |-> q] :
                         q \in [Requests ->
                                   {VideoRequest(n, v, s) :
                                       n \in {1, 2}, v \in BOOLEAN,
                                       s \in VideoScripts}]}

\* POST /api/generate-video of request r arrives
VideoRequested(r) ==
    /\ video.reqs[r].pc = "idle"
    /\ video' = [video EXCEPT !.reqs[r].pc = "await_download",
                              !.reqs[r].temp_dir = Some(mkdtemp(r))]
    /\ UNCHANGED <<base_vars, clean, gemini, health, walkthru, gemini_service, task_call, event_loop, cost_tracker, categorize, sanitize>>

\* await download_photo(url, photo_path) of request r completes
PhotoDownloaded(r) ==
    /\ video.reqs[r].pc = "await_download"
    /\ \E ok, audio_ok, silent_ok \in BOOLEAN :
           video' = [video EXCEPT !.reqs[r] =
                        after_download(@, ok, video.elevenlabs_api_key,
                                       audio_ok, silent_ok)]
    /\ UNCHANGED <<base_vars, clean, gemini, health, walkthru, gemini_service, task_call, event_loop, cost_tracker, categorize, sanitize>>

\* await generate_voiceover(...) of request r completes
VoiceoverCompletes(r) ==
    /\ video.reqs[r].pc = "await_voiceover"
    /\ \E ok, audio_ok, silent_ok \in BOOLEAN :
           video' = [video EXCEPT !.reqs[r] =
                        after_voiceover(@, ok, audio_ok, silent_ok)]
    /\ UNCHANGED <<base_vars, clean, gemini, health, walkthru, gemini_service, task_call, event_loop, cost_tracker, categorize, sanitize>>

\* await upload_to_supabase / upload_text_to_supabase of request r completes
UploadCompletes(r) ==
    /\ video.reqs[r].pc \in {"await_video_upload", "await_script_upload"}
    /\ \E ok \in BOOLEAN :
           video' = [video EXCEPT !.reqs[r] = after_upload(@, ok)]
    /\ UNCHANGED <<base_vars, clean, gemini, health, walkthru, gemini_service, task_call, event_loop, cost_tracker, categorize, sanitize>>

NextVideo ==
    \E r \in Requests :
        \/ VideoRequested(r)
        \/ PhotoDownloaded(r)
        \/ VoiceoverCompletes(r)
        \/ UploadCompletes(r)

SpecVideo == InitVideo /\ [][NextVideo]_vars

VideoBuilt(rq) ==
    rq.pc \in {"await_video_upload", "await_script_upload", "returned"}

\* C31: a failure of the voiceover generation or of the audio-timed build
\* does not fail the request by itself: the silent video is built and, when
\* that succeeds, the request goes on with has_voiceover false; a response
\* reports has_voiceover true only when the voiceover generation and the
\* audio-timed build both succeeded.
C31_VoiceoverFailureFallsBackToSilent ==
    \A r \in Requests :
        LET rq == video.reqs[r]
            silent_path == path_join(gettempdir, "concat.txt")
        IN /\ (rq.voiceover_ok = Some(FALSE) \/ rq.audio_build_ok = Some(FALSE))
                  => /\ rq.silent_build_ok /= None
                     /\ silent_path \in rq.paths
                     /\ ~rq.has_voiceover
                     /\ rq.silent_build_ok = Some(TRUE) =>
                            \/ VideoBuilt(rq)
                            \/ The(rq.raised).detail =
                                   <<"Failed to upload to storage: ">>
           /\ (rq.response /= None /\ The(rq.response).has_voiceover)
                  => /\ rq.voiceover_ok = Some(TRUE)
                     /\ rq.audio_build_ok = Some(TRUE)
           /\ (VideoBuilt(rq) /\ rq.has_voiceover)
                  => rq.audio_build_ok = Some(TRUE)

\* the audio-timed build failed, the silent one succeeded, the response came
C31_Witness ==
    \E r \in Requests :
        LET rq == video.reqs[r]
        IN /\ rq.voiceover_ok = Some(TRUE)
           /\ rq.audio_build_ok = Some(FALSE)
           /\ rq.response /= None
           /\ ~The(rq.response).has_voiceover

\* the voiceover generation failed and the response came
C31_WitnessVoiceoverFailed ==
    \E r \in Requests :
        LET rq == video.reqs[r]
        IN /\ rq.voiceover_ok = Some(FALSE)
           /\ rq.response /= None
           /\ ~The(rq.response).has_voiceover

\* C36: two video requests never write or read the same intermediate file
\* path: every file a request creates lies under its own temporary
\* directory.
C36_RequestsUseOwnFiles ==
    \A r \in Requests :
        LET rq == video.reqs[r]
        IN /\ \A p \in rq.paths : p[1] = The(rq.temp_dir)
           /\ \A other \in Requests \ {r} :
                  rq.paths \cap video.reqs[other].paths = {}

---------------------------------------------------------------------------
(* Usage recording of the generate-public-remarks and generate-features    *)
(* endpoints.                                                              *)

ProviderWasCalled ==
    Called(events, "openai_api_start") \/ Called(events, "gemini_api_start")

C32_WitnessSuccess ==
    /\ endpoint.kind = "features"
    /\ EndpointSucceeded
    /\ Len(endpoint.usage_records) = 1

---------------------------------------------------------------------------
(* Failures of the /generate/* document endpoints.                         *)

GenerationFailed ==
    raised /= None \/ (result /= None /\ ~The(result).success)

\* C33: a document endpoint (draft-text, review, summarize, walkthru) never
\* raises: every failure, a content error raised by
\* generate_content_with_fallback and a both-providers-failed result
\* included, ends in a GenerationResponse with success false, empty
\* generated_text and a non-empty error.
C33_DocumentEndpointsNeverRaise ==
    (endpoint.kind \in DocumentEndpoints /\ EndpointDone) =>
        /\ endpoint.pc = "responded"
        /\ GenerationFailed => ~The(endpoint.response).success
        /\ ~The(endpoint.response).success =>
               /\ The(endpoint.response).generated_text = <<>>
               /\ The(endpoint.response).error /= None
               /\ The(The(endpoint.response).error) /= <<>>

---------------------------------------------------------------------------
(* The retry policy of AnthropicService.generate_walkthru_script: the      *)
(* event loop runs every ready coroutine, each provider call and each wait *)
(* of the policy (at most 10 seconds) comes to an end.                     *)

FairSpecWalkthru == SpecWalkthru /\ WF_vars(NextWalkthru)

WalkthruDone == walkthru.pc \in {"returned", "raised"}

\* the attempts, Claude calls and fallback invocations stay within the stop
\* condition; three failed attempts end in the error of the retry policy
WalkthruBounded ==
    /\ walkthru.attempt <= stop_after_attempt
    /\ Len(walkthru.prompt_features) <= walkthru.attempt
    /\ Len(walkthru.claude_excs) <= Len(walkthru.prompt_features)
    /\ walkthru.fallback_lookups <= Len(walkthru.claude_excs)
    /\ walkthru.fallback_calls <= walkthru.fallback_lookups
    /\ walkthru.pc = "waiting" => walkthru.attempt < stop_after_attempt
    /\ (walkthru.attempt = stop_after_attempt
        /\ walkthru.pc \notin {"await_claude", "returned"})
           => /\ walkthru.pc = "raised"
              /\ walkthru.raised /= None

\* C34: every invocation of generate_walkthru_script terminates: it makes
\* at most 3 attempts, hence at most 3 Claude calls and at most 3
\* invocations of the fallback, and when every attempt fails it ends by
\* raising an error.
C34_WalkthruTerminates ==
    /\ []WalkthruBounded
    /\ (walkthru.pc /= "idle") ~> WalkthruDone

\* Claude and the fallback failed on each of the three attempts and the
\* call ended raising the error of the retry policy
C34_Witness ==
    /\ walkthru.pc = "raised"
    /\ walkthru.attempt = stop_after_attempt
    /\ Len(walkthru.claude_excs) = stop_after_attempt
    /\ walkthru.fallback_lookups = stop_after_attempt
    /\ The(walkthru.raised).cls = "tenacity.RetryError"

\* C35: generate_walkthru_script leaves its property_details argument
\* unchanged: after any number of attempts property_details.features holds
\* exactly the elements it held before the call.
C35_PropertyDetailsUnchanged ==
    walkthru.features = walkthru.original_features

---------------------------------------------------------------------------
(* categorize_photos (endpoints/photo_categorization).  A JSON value is a  *)
(* record of its type and its number or string; an item of the array the   *)
(* model returned is a dict of optional values or something else.  The     *)
(* variable categorize holds the request, the parsed array and the         *)
(* outcome.                                                                *)

MaxRawLen == 2

JInt(k) == [t |-> "int", n |-> k, s |-> ""]
JStr(s) == [t |-> "str", n |-> 0, s |-> s]
JNull == [t |-> "null", n |-> 0, s |-> ""]

\* the items json.loads can give
RawItems ==
    {[dict |-> TRUE, index |-> i, category |-> c, subcategory |-> None,
      priority |-> p] :
        i \in {None, Some(JInt(0)), Some(JInt(2)), Some(JStr("one"))},
        c \in {None, Some(JStr("kitchen")), Some(JNull)},
        p \in {None, Some(JInt(0)), Some(JInt(9)), Some(JStr("high"))}}
    \cup {[dict |-> FALSE, index |-> None, category |-> None,
           subcategory |-> None, priority |-> None]}

RECURSIVE SeqsUpTo(_, _)
SeqsUpTo(S, k) ==
    IF k = 0 THEN {<<>>}
    ELSE LET shorter == SeqsUpTo(S, k - 1)
         IN shorter \cup {Append(q, x) : q \in shorter, x \in S}

\* cat.get(key, default)
dict_get(value, default) == IF value = None THEN default ELSE The(value)

\* str.upper()
upper(s) == CASE s = "kitchen" -> "KITCHEN" [] OTHER -> s

\* PhotoCategory(index=..., category=..., subcategory=..., priority=...):
\* the validated model, or nothing when validation raises
PhotoCategory(index, category, subcategory, priority) ==
    IF /\ index.t = "int"
       /\ category.t = "str"
       /\ subcategory.t \in {"str", "null"}
       /\ priority.t = "int" /\ priority.n >= 1 /\ priority.n <= 5
    THEN Some([index |-> index.n, category |-> category.s,
               subcategory |-> IF subcategory.t = "null" THEN None
                               ELSE Some(subcategory.s),
               priority |-> priority.n])
    ELSE None

\* min(max(priority, 1), 5)
clamp_priority(k) == IF k < 1 THEN 1 ELSE IF k > 5 THEN 5 ELSE k

\* the try block of the loop body: the entry, or nothing when it raises
category_entry(cat) ==
    LET index == dict_get(cat.index, JInt(0))
        category == dict_get(cat.category, JStr("UNKNOWN"))
        priority == dict_get(cat.priority, JInt(3))
    IN IF ~cat.dict \/ category.t /= "str" \/ priority.t /= "int"
       THEN None
       ELSE PhotoCategory(index, JStr(upper(category.s)),
                          dict_get(cat.subcategory, JNull),
                          JInt(clamp_priority(priority.n)))

\* the except block of the loop body: the default entry for the index, or
\* nothing when it raises in its turn
default_entry(cat, categories) ==
    IF ~cat.dict THEN None
    ELSE PhotoCategory(dict_get(cat.index, JInt(Len(categories))),
                       JStr("UNKNOWN"), JNull, JInt(3))

\* for cat in categories_raw: the entries, or nothing when the loop raises
RECURSIVE validate_categories(_, _)
validate_categories(categories_raw, categories) ==
    IF categories_raw = <<>> THEN Some(categories)
    ELSE LET cat == Head(categories_raw)
             entry == category_entry(cat)
             fallback == default_entry(cat, categories)
         IN IF entry /= None
            THEN validate_categories(Tail(categories_raw),
                                     Append(categories, The(entry)))
            ELSE IF fallback /= None
                 THEN validate_categories(Tail(categories_raw),
                                          Append(categories, The(fallback)))
                 ELSE None

\* variant: the indexes the model missed are left out
fill_gaps_none(categories, n) ==
    categories

\* ensure there is an entry for each photo
fill_gaps(categories, n) ==
    LET indexed == {categories[k].index : k \in 1..Len(categories)}
        missed == SelectSeq([k \in 1..n |-> k - 1],
                            LAMBDA i : i \notin indexed)
    IN categories
       \o [k \in 1..Len(missed) |->
              [index |-> missed[k], category |-> "UNKNOWN",
               subcategory |-> None, priority |-> 3]]

\* categories.sort(key=lambda x: x.index): a stable sort
RECURSIVE sort_by_index(_)
sort_by_index(categories) ==
    IF categories = <<>> THEN <<>>
    ELSE LET first == Head(categories)
             sorted == sort_by_index(Tail(categories))
         IN SelectSeq(sorted, LAMBDA c : c.index < first.index)
            \o <<first>>
            \o SelectSeq(sorted, LAMBDA c : c.index >= first.index)

CategorizeRequest(n) ==
    [pc |-> "idle", photo_urls |-> n, categories_raw |-> None,
     response |-> None, raised |-> None]

\* what generate_content_with_fallback and json.loads come to
CategorizeOutcomes ==
    {[kind |-> k, items |-> <<>>] : k \in {"failed", "not_json"}}
    \cup {[kind |-> "array", items |-> q] : q \in SeqsUpTo(RawItems, MaxRawLen)}

categorize_raise(rq, status_code, detail) ==
    [rq EXCEPT !.pc = "raised",
               !.raised = Some(HTTPException(status_code, detail))]

\* the handler from the result of generate_content_with_fallback on
categorize_after_result(rq, out) ==
    IF out.kind = "failed"
    THEN categorize_raise(rq, 503, <<"AI generation failed: ">>)
    ELSE IF out.kind = "not_json"
    THEN categorize_raise(rq, 500,
                          <<"Failed to parse categorization response: ">>)
    ELSE LET parsed == [rq EXCEPT !.categories_raw = Some(out.items)]
             categories == validate_categories(out.items, <<>>)
         IN IF categories = None
            THEN categorize_raise(parsed, 500,
                                  <<"Photo categorization failed: ">>)
            ELSE [parsed EXCEPT
                     !.pc = "returned",
                     !.response = Some(
                         [success |-> TRUE,
                          categories |-> sort_by_index(
                              fill_gaps(The(categories), rq.photo_urls)),
                          photos_analyzed |-> rq.photo_urls])]

InitCategorize ==
    /\ sanitize = None
    /\ BaseIdle
    /\ KeysConfigured
    /\ clean = None
    /\ gemini = None
    /\ health = None
    /\ walkthru = None
    /\ gemini_service = None
    /\ task_call = None
    /\ event_loop = None
    /\ cost_tracker = None
    /\ video = None
    /\ categorize \in {CategorizeRequest(n) : n \in {1, 3}}

\* POST /api/categorize-photos arrives
CategorizePhotosCalled ==
    /\ categorize.pc = "idle"
    /\ categorize' = [categorize EXCEPT !.pc = "await_generation"]
    /\ UNCHANGED <<base_vars, clean, gemini, health, walkthru, gemini_service, task_call, event_loop, cost_tracker, video, sanitize>>

\* await generate_content_with_fallback(...) completes
CategorizeGenerationCompletes ==
    /\ categorize.pc = "await_generation"
    /\ \E out \in CategorizeOutcomes :
           categorize' = categorize_after_result(categorize, out)
    /\ UNCHANGED <<base_vars, clean, gemini, health, walkthru, gemini_service, task_call, event_loop, cost_tracker, video, sanitize>>

NextCategorize == CategorizePhotosCalled \/ CategorizeGenerationCompletes

SpecCategorize == InitCategorize /\ [][NextCategorize]_vars

\* the index the array names for photo i: an item at index i, or an item
\* without an index
NamedByModel(i) ==
    \E k \in 1..Len(The(categorize.categories_raw)) :
        LET cat == The(categorize.categories_raw)[k]
        IN cat.index = None \/ cat.index = Some(JInt(i))

\* C37: every success response of categorize_photos for n photo URLs has an
\* entry for each index 0..n-1 (an index the model omitted has one entry, of
\* category UNKNOWN and priority 3), lists its entries in ascending index
\* order, and every entry's priority lies in 1..5.
C37_EveryPhotoCategorized ==
    categorize.response /= None =>
        LET cs == The(categorize.response).categories
            n == categorize.photo_urls
        IN /\ \A i \in 0..(n - 1) : \E k \in 1..Len(cs) : cs[k].index = i
           /\ \A i \in 0..(n - 1) :
                  ~NamedByModel(i) =>
                      \A k \in 1..Len(cs) :
                          cs[k].index = i =>
                              /\ cs[k].category = "UNKNOWN"
                              /\ cs[k].priority = 3
                              /\ \A j \in 1..Len(cs) : cs[j].index = i => j = k
           /\ \A k \in 1..(Len(cs) - 1) : cs[k].index <= cs[k + 1].index
           /\ \A k \in 1..Len(cs) : cs[k].priority \in 1..5

\* the model answered for photos 2 and 0 of three, in that order, with
\* priorities outside the range: the response fills index 1
C37_Witness ==
    /\ categorize.response /= None
    /\ categorize.photo_urls = 3
    /\ Len(The(categorize.categories_raw)) = 2
    /\ The(categorize.categories_raw)[1].index = Some(JInt(2))
    /\ The(categorize.categories_raw)[1].priority = Some(JInt(9))
    /\ The(categorize.categories_raw)[2].index = Some(JInt(0))
    /\ The(categorize.categories_raw)[2].priority = Some(JInt(0))
    /\ Len(The(categorize.response).categories) = 3

---------------------------------------------------------------------------
(* sanitize_content (compliance/fair_housing.py) applied to bounded texts, *)
(* once and a second time to its own output.  The variable sanitize holds  *)
(* the text and the two outputs.                                           *)

MaxSanitizeLen == 4

\* the regex \bw1 w2 ... wn\b: the words are separated by one space
RECURSIVE SingleSpaced(_)
SingleSpaced(sets) ==
    IF Len(sets) = 1 THEN <<Word(sets[1])>>
    ELSE <<Word(sets[1]), Word({" "})>> \o SingleSpaced(Tail(sets))

\* the replacements dict, in insertion order
replacements ==
    <<[pattern |-> {SingleSpaced(<<{"perfect"}, {"for"}, {"families", "couples"}>>)},
       replacement |-> <<"ideal", " ", "layout">>],
      [pattern |-> {SingleSpaced(<<{"great"}, {"for"}, {"families", "couples"}>>)},
       replacement |-> <<"spacious", " ", "design">>],
      [pattern |-> {SingleSpaced(<<{"ideal"}, {"for"}, {"families", "couples"}>>)},
       replacement |-> <<"versatile", " ", "floor", " ", "plan">>],
      [pattern |-> {SingleSpaced(<<{"adults"}, {"only"}>>)},
       replacement |-> <<>>],
      [pattern |-> {SingleSpaced(<<{"no"}, {"children"}>>)},
       replacement |-> <<>>],
      [pattern |-> {SingleSpaced(<<{"near"}, {"church"}>>)},
       replacement |-> <<"convenient", " ", "location">>],
      [pattern |-> {SingleSpaced(<<{"near"}, {"synagogue"}>>)},
       replacement |-> <<"convenient", " ", "location">>],
      [pattern |-> {SingleSpaced(<<{"near"}, {"temple"}>>)},
       replacement |-> <<"convenient", " ", "location">>],
      [pattern |-> {SingleSpaced(<<{"near"}, {"mosque"}>>)},
       replacement |-> <<"convenient", " ", "location">>]>>

\* re.sub(pattern, replacement, text, flags=re.IGNORECASE)
RECURSIVE re_sub_from(_, _, _, _)
re_sub_from(pattern, replacement, text, i) ==
    IF i > Len(text) THEN <<>>
    ELSE LET e == MatchEnd(pattern, Lower(text), i)
         IN IF e = 0
            THEN <<text[i]>> \o re_sub_from(pattern, replacement, text, i + 1)
            ELSE replacement \o re_sub_from(pattern, replacement, text, e)

re_sub(pattern, replacement, text) == re_sub_from(pattern, replacement, text, 1)

\* for pattern, replacement in replacements.items(): result = re.sub(...)
RECURSIVE replace_all(_, _)
replace_all(items, text) ==
    IF items = <<>> THEN text
    ELSE replace_all(Tail(items),
                     re_sub(Head(items).pattern, Head(items).replacement, text))

\* re.sub(r'\s+', ' ', result)
RECURSIVE collapse_whitespace(_)
collapse_whitespace(text) ==
    IF text = <<>> THEN <<>>
    ELSE IF IsWhitespace(Head(text))
         THEN <<" ">> \o collapse_whitespace(LStrip(text))
         ELSE <<Head(text)>> \o collapse_whitespace(Tail(text))

\* sanitize_content(text)
sanitize_content(text) ==
    Strip(collapse_whitespace(replace_all(replacements, text)))

SanitizeChunks == {"adults", "Only", "no", "children", "near", "church", " "}

SanitizeTexts == UNION {[1..n -> SanitizeChunks] : n \in 0..MaxSanitizeLen}

InitSanitize ==
    /\ BaseIdle
    /\ KeysConfigured
    /\ clean = None
    /\ gemini = None
    /\ health = None
    /\ walkthru = None
    /\ gemini_service = None
    /\ task_call = None
    /\ event_loop = None
    /\ cost_tracker = None
    /\ video = None
    /\ categorize = None
    /\ sanitize \in {[text |-> t, once |-> None, twice |-> None] :
                        t \in SanitizeTexts}

\* sanitize_content(text)
SanitizeText ==
    /\ sanitize.once = None
    /\ sanitize' = [sanitize EXCEPT
                       !.once = Some(sanitize_content(sanitize.text))]
    /\ UNCHANGED <<base_vars, clean, gemini, health, walkthru, gemini_service, task_call, event_loop, cost_tracker, video, categorize>>

\* sanitize_content of the output of the first call
SanitizeOutput ==
    /\ sanitize.once /= None
    /\ sanitize.twice = None
    /\ sanitize' = [sanitize EXCEPT
                       !.twice = Some(sanitize_content(The(sanitize.once)))]
    /\ UNCHANGED <<base_vars, clean, gemini, health, walkthru, gemini_service, task_call, event_loop, cost_tracker, video, categorize>>

NextSanitize == SanitizeText \/ SanitizeOutput

SpecSanitize == InitSanitize /\ [][NextSanitize]_vars

\* a phrase the function removes or replaces is in the text
HasFixedPhrase(text) ==
    \E k \in DOMAIN replacements :
        \E i \in DOMAIN text :
            MatchEnd(replacements[k].pattern, Lower(text), i) /= 0

\* C38: sanitize_content is idempotent: sanitize_content of its output is
\* its output, and its output holds none of the fixed phrases a second pass
\* would strip.
C38_SanitizeIdempotent ==
    /\ sanitize.twice /= None => sanitize.twice = sanitize.once
    /\ sanitize.once /= None => ~HasFixedPhrase(The(sanitize.once))

===========================================================================
